---- MODULE Spec2Model ----
(***************************************************************************)
(* Reconciliation of card statement transactions against a YNAB budget.    *)
(*                                                                         *)
(* Modelled code:                                                          *)
(*   services/reconciliationService.ts (ReconciliationService)             *)
(*   services/ynabClient.ts            (YnabClient)                        *)
(*   db.ts                             (transactions, reconciliation_logs) *)
(*   server/routes/reconcile.ts        (the /api/reconcile routes)         *)
(*                                                                         *)
(* Representation of values:                                               *)
(*  - a date string 'YYYY-MM-DD' is the tuple <<year, month, day>>; string *)
(*    comparison of two such strings is lexicographic comparison of the    *)
(*    tuples, and new Date(s).getTime() is computed from the calendar;     *)
(*  - an amount in currency units (a JS number) is a fixed-point integer   *)
(*    counting 1/10000 of a unit: 30.00 is 300000, 0.01 is 100.  Binary    *)
(*    floating-point representation error is not modelled;                 *)
(*  - a YNAB amount is an integer number of milliunits, as in the code.    *)
(***************************************************************************)
EXTENDS Integers, Sequences, FiniteSets, TLC

VARIABLES
  cardTransactions,   \* matchTransactions: the card rows given to the engine
  ynabTransactions,   \* matchTransactions: the YNAB transactions given to it
  config,             \* ReconciliationService.config
  candidates,         \* last value returned by findMatchingYnabTransactions
  candidatesFor,      \* index in cardTransactions it was called for (0: none)
  report,             \* last value returned by matchTransactions
  transactions,       \* db.ts: rows of the transactions table
  ledger,             \* the remote budget: its transactions, in response order
  request,            \* parameters of the last reconcile run
  result,             \* ReconciliationResult of the last reconcile run
  clock,              \* the time new Date() returns, in ticks
  reconciliationLogs, \* db.ts: rows of the reconciliation_logs table
  actions,            \* the actions field reconcileAndPersist returned last
  outcome,            \* value the last store or ledger write operation returned
  calls,              \* ledger client and store calls the last handler made
  response,           \* HTTP response of the last route handler
  sqliteSequence,     \* db.ts: the largest id the transactions table has assigned
  inFlight            \* the calls of reconcileAndPersist suspended at an await

engineVars == <<cardTransactions, ynabTransactions, candidates, candidatesFor, report>>
serviceVars == <<transactions, ledger, request, result, sqliteSequence, inFlight>>
handlerVars == <<clock, reconciliationLogs, actions, outcome, calls, response>>
vars == <<cardTransactions, ynabTransactions, config, candidates, candidatesFor,
          report, transactions, ledger, request, result, clock, reconciliationLogs,
          actions, outcome, calls, response, sqliteSequence, inFlight>>

----------------------------------------------------------------------------
(* Bounds of the model *)

MaxCards == 2
MaxYnab == 2
MaxRows == 2
MaxLedger == 2
MaxClock == 2
MaxIds == 2
MaxSequence == 3
MaxPairs == 2

----------------------------------------------------------------------------
(* Generic helpers *)

Abs(x) == IF x < 0 THEN -x ELSE x

\* Math.round(n / d) for d > 0: the nearest integer, halves towards +infinity
MathRound(n, d) == (2 * n + d) \div (2 * d)

Range(s) == {s[i] : i \in 1..Len(s)}

\* Array.prototype.filter
RECURSIVE SelectSeqBy(_, _)
SelectSeqBy(s, keep) ==
  IF s = <<>> THEN <<>>
  ELSE (IF Head(s) \in keep THEN <<Head(s)>> ELSE <<>>) \o SelectSeqBy(Tail(s), keep)

----------------------------------------------------------------------------
(* Dates *)

IsLeapYear(y) == (y % 4 = 0 /\ y % 100 # 0) \/ y % 400 = 0

DaysInMonth(y, m) ==
  IF m = 2 THEN (IF IsLeapYear(y) THEN 29 ELSE 28)
  ELSE IF m \in {4, 6, 9, 11} THEN 30 ELSE 31

RECURSIVE DaysBeforeMonth(_, _)
DaysBeforeMonth(y, m) ==
  IF m = 1 THEN 0 ELSE DaysBeforeMonth(y, m - 1) + DaysInMonth(y, m - 1)

RECURSIVE DaysBeforeYear(_)
\* days from 2024-01-01 to the first day of year y (y >= 2024)
DaysBeforeYear(y) ==
  IF y <= 2024 THEN 0
  ELSE DaysBeforeYear(y - 1) + (IF IsLeapYear(y - 1) THEN 366 ELSE 365)

MsPerDay == 1000 * 60 * 60 * 24

\* new Date('YYYY-MM-DD') is UTC midnight of the date: its day number, counted
\* from 2024-01-01 (only differences of getTime() values are used)
DayNumber(date) ==
  DaysBeforeYear(date[1]) + DaysBeforeMonth(date[1], date[2]) + (date[3] - 1)

\* d2.getTime() - d1.getTime(), in milliseconds
DiffMs(d1, d2) == (DayNumber(d2) - DayNumber(d1)) * MsPerDay

\* string comparison a <= b of two 'YYYY-MM-DD' strings
DateLeq(a, b) ==
  \/ a[1] < b[1]
  \/ a[1] = b[1] /\ a[2] < b[2]
  \/ a[1] = b[1] /\ a[2] = b[2] /\ a[3] <= b[3]

\* ReconciliationService.dateDifference: positive if date2 is after date1
dateDifference(date1, date2) ==
  MathRound(DiffMs(date1, date2), MsPerDay)

----------------------------------------------------------------------------
(* Currency conversion (YnabClient) *)

\* YnabClient.milliunitsToAmount: milliunits / 1000, in 1/10000 units
milliunitsToAmount(milliunits) == milliunits * 10

\* YnabClient.amountToMilliunits: Math.round(amount * 1000)
amountToMilliunits(amount) == MathRound(amount, 10)

----------------------------------------------------------------------------
(* Strings built by the code.  A string is the sequence of its characters. *)

Digits == <<"0", "1", "2", "3", "4", "5", "6", "7", "8", "9">>

\* the decimal digits of a natural number, as String(n) prints them
RECURSIVE NatToString(_)
NatToString(n) ==
  IF n < 10 THEN <<Digits[n + 1]>>
  ELSE NatToString(n \div 10) \o <<Digits[(n % 10) + 1]>>

\* `${n}` of an integer-valued number
IntToString(n) == IF n < 0 THEN <<"-">> \o NatToString(-n) ELSE NatToString(n)

\* the digits of n, zero-padded on the left to width w
RECURSIVE PadStart(_, _)
PadStart(n, w) ==
  IF w = 0 THEN <<>> ELSE PadStart(n \div 10, w - 1) \o <<Digits[(n % 10) + 1]>>

\* the 'YYYY-MM-DD' string that a date tuple stands for
DateString(date) ==
  PadStart(date[1], 4) \o <<"-">> \o PadStart(date[2], 2) \o <<"-">> \o PadStart(date[3], 2)

\* String.prototype.substring(0, n)
substring0(str, n) == SubSeq(str, 1, IF Len(str) < n THEN Len(str) ELSE n)

ImportIdReferenceLength == 12

\* YnabClient.generateImportId
generateImportId(amount, date, reference) ==
  <<"Y", "N", "A", "B", ":">> \o IntToString(amountToMilliunits(amount)) \o <<":">>
    \o DateString(date) \o <<":">> \o substring0(reference, ImportIdReferenceLength)

----------------------------------------------------------------------------
(* Configuration *)

DEFAULT_CONFIG ==
  [dateTolerance |-> 2, amountTolerance |-> 100, excludeDeletedTransactions |-> TRUE]

\* constructor: { ...DEFAULT_CONFIG, ...config }
MergeConfig(partial) ==
  [k \in DOMAIN DEFAULT_CONFIG |->
     IF k \in DOMAIN partial THEN partial[k] ELSE DEFAULT_CONFIG[k]]

----------------------------------------------------------------------------
(* Matching engine *)

ReconciliationMatch(cardTxn, ynabTxn) ==
  [cardTransaction |-> cardTxn,
   ynabTransaction |-> ynabTxn,
   dateDifference |-> dateDifference(cardTxn.date, ynabTxn.date)]

\* findMatchingYnabTransactions, line 348
amountDiff(cardAmount, ynabAmount) == Abs(cardAmount - ynabAmount)

isCandidateDateStrict(cardTxn, ynabTxn, cfg) ==
  /\ amountDiff(cardTxn.amount, milliunitsToAmount(ynabTxn.amount)) <= cfg.amountTolerance
  /\ Abs(dateDifference(cardTxn.date, ynabTxn.date)) < cfg.dateTolerance

\* findMatchingYnabTransactions: the filter predicate
isCandidate(cardTxn, ynabTxn, cfg) ==
  /\ amountDiff(cardTxn.amount, milliunitsToAmount(ynabTxn.amount)) <= cfg.amountTolerance
  /\ Abs(dateDifference(cardTxn.date, ynabTxn.date)) <= cfg.dateTolerance

RECURSIVE findMatchingYnabTransactions(_, _, _)
findMatchingYnabTransactions(cardTxn, ynabTxns, cfg) ==
  IF ynabTxns = <<>> THEN <<>>
  ELSE (IF isCandidate(cardTxn, Head(ynabTxns), cfg)
          THEN <<ReconciliationMatch(cardTxn, Head(ynabTxns))>>
          ELSE <<>>)
       \o findMatchingYnabTransactions(cardTxn, Tail(ynabTxns), cfg)

closerKeepsFirst(cardTxn, prev, current) ==
  IF Abs(dateDifference(cardTxn.date, prev.ynabTransaction.date)) <=
     Abs(dateDifference(cardTxn.date, current.ynabTransaction.date))
  THEN prev ELSE current

\* the callback of candidates.reduce in matchTransactions
closer(cardTxn, prev, current) ==
  IF Abs(dateDifference(cardTxn.date, prev.ynabTransaction.date)) <
     Abs(dateDifference(cardTxn.date, current.ynabTransaction.date))
  THEN prev ELSE current

RECURSIVE reduceFrom(_, _, _, _)
reduceFrom(cardTxn, cands, k, prev) ==
  IF k > Len(cands) THEN prev
  ELSE reduceFrom(cardTxn, cands, k + 1, closer(cardTxn, prev, cands[k]))

\* candidates.reduce(...) without initial value, on a non-empty array
bestMatch(cardTxn, cands) == reduceFrom(cardTxn, cands, 2, cands[1])

RECURSIVE matchLoopKeepCard(_, _, _, _, _, _)
matchLoopKeepCard(cards, ynabTxns, cfg, cardIndex, matched, unmatched) ==
  IF cardIndex > Len(cards) THEN [matched |-> matched, unmatched |-> unmatched]
  ELSE
    LET cands == findMatchingYnabTransactions(cards[cardIndex], ynabTxns, cfg) IN
    IF Len(cands) > 0
    THEN LET best == bestMatch(cards[cardIndex], cands) IN
         matchLoopKeepCard(cards, ynabTxns, cfg, cardIndex + 1, Append(matched, best),
                   [card |-> unmatched.card,
                    ynab |-> unmatched.ynab \ {best.ynabTransaction.id}])
    ELSE matchLoopKeepCard(cards, ynabTxns, cfg, cardIndex + 1, matched, unmatched)

\* matchTransactions: the loop over unmatchedCard.entries().  unmatched.card
\* is the key set of the Map unmatchedCard (card indexes), unmatched.ynab the
\* key set of unmatchedYnab (YNAB ids).
RECURSIVE matchLoop(_, _, _, _, _, _)
matchLoop(cards, ynabTxns, cfg, cardIndex, matched, unmatched) ==
  IF cardIndex > Len(cards) THEN [matched |-> matched, unmatched |-> unmatched]
  ELSE
    LET cands == findMatchingYnabTransactions(cards[cardIndex], ynabTxns, cfg) IN
    IF Len(cands) > 0
    THEN LET best == bestMatch(cards[cardIndex], cands) IN
         matchLoop(cards, ynabTxns, cfg, cardIndex + 1, Append(matched, best),
                   [card |-> unmatched.card \ {cardIndex},
                    ynab |-> unmatched.ynab \ {best.ynabTransaction.id}])
    ELSE matchLoop(cards, ynabTxns, cfg, cardIndex + 1, matched, unmatched)

\* Array.from(map.values()) of a Map filled in list order, then cut to keys
valuesAt(s, keys) ==
  LET idx == SelectSeqBy([i \in 1..Len(s) |-> i], keys) IN
  [k \in 1..Len(idx) |-> s[idx[k]]]

valuesWithId(s, ids) == SelectSeqBy(s, {x \in Range(s) : x.id \in ids})

matchTransactions(cards, ynabTxns, cfg) ==
  LET final == matchLoop(cards, ynabTxns, cfg, 1, <<>>,
                         [card |-> 1..Len(cards),
                          ynab |-> {ynabTxns[i].id : i \in 1..Len(ynabTxns)}])
  IN [matched |-> final.matched,
      missingInYnab |-> valuesAt(cards, final.unmatched.card),
      unexpectedInYnab |-> valuesWithId(ynabTxns, final.unmatched.ynab)]

----------------------------------------------------------------------------
(* The matching engine on its own: inputs drawn from bounded sets *)

CardDates == {<<2024, 1, 31>>}
CardAmounts == {300000, -300000}
YnabDates == {<<2024, 1, 30>>, <<2024, 2, 1>>, <<2024, 2, 2>>}
YnabAmounts == {30000, -30000, 30010}
YnabIds == <<"ynab-1", "ynab-2", "ynab-3", "ynab-4">>

\* card rows as transformTransactionRow returns them (fields the service reads)
CardLists(n) ==
  UNION {{[i \in 1..k |-> [id |-> i, date |-> f[i][1], amount |-> f[i][2]]] :
            f \in [1..k -> CardDates \X CardAmounts]} : k \in 0..n}

\* YNAB transactions as the client maps them; ids are unique in a budget
YnabLists(n) ==
  UNION {{[i \in 1..k |-> [id |-> YnabIds[i], date |-> f[i][1], amount |-> f[i][2],
                            deleted |-> FALSE]] :
            f \in [1..k -> YnabDates \X YnabAmounts]} : k \in 0..n}

EngineConfigs ==
  {MergeConfig([dateTolerance |-> d, amountTolerance |-> a]) : d \in {1, 2}, a \in {0, 100}}

NoReport ==
  [returned |-> FALSE, matched |-> <<>>, missingInYnab |-> <<>>, unexpectedInYnab |-> <<>>]

NoRequest == [made |-> FALSE]
NoResult == [returned |-> FALSE]
NoActions == [returned |-> FALSE]
NoOutcome == [op |-> "none"]
NoResponse == [sent |-> FALSE]

\* the calls of reconcileAndPersist that may be in progress at once
Runs == {"run-1", "run-2"}

NotRunning == [pc |-> "idle"]
NoneInFlight == [r \in Runs |-> NotRunning]

\* the state of the variables no handler has touched yet
HandlersIdle ==
  /\ clock = 0
  /\ reconciliationLogs = <<>>
  /\ actions = NoActions
  /\ outcome = NoOutcome
  /\ calls = <<>>
  /\ response = NoResponse

InitMatch ==
  /\ cardTransactions \in CardLists(MaxCards)
  /\ ynabTransactions \in YnabLists(MaxYnab)
  /\ config \in EngineConfigs
  /\ candidates = <<>>
  /\ candidatesFor = 0
  /\ report = NoReport
  /\ transactions = <<>>
  /\ ledger = <<>>
  /\ request = NoRequest
  /\ result = NoResult
  /\ HandlersIdle
  /\ sqliteSequence = Len(transactions)
  /\ inFlight = NoneInFlight

\* a call of findMatchingYnabTransactions for one of the card rows
FindMatching(i) ==
  /\ i \in 1..Len(cardTransactions)
  /\ candidates' = findMatchingYnabTransactions(cardTransactions[i], ynabTransactions, config)
  /\ candidatesFor' = i
  /\ UNCHANGED <<cardTransactions, ynabTransactions, config, report, serviceVars,
                 handlerVars>>

\* a call of matchTransactions
Match ==
  /\ report' = [returned |-> TRUE] @@ matchTransactions(cardTransactions, ynabTransactions, config)
  /\ UNCHANGED <<cardTransactions, ynabTransactions, config, candidates, candidatesFor,
                 serviceVars, handlerVars>>

NextMatch ==
  \/ \E i \in 1..Len(cardTransactions) : FindMatching(i)
  \/ Match

SpecMatch == InitMatch /\ [][NextMatch]_vars

----------------------------------------------------------------------------
(* Local store (db.ts) and YNAB client (ynabClient.ts) *)

RowDates == {<<2024, 1, 31>>}
RowAmounts == {300000}
LedgerDates == {<<2024, 1, 30>>, <<2024, 1, 31>>, <<2024, 2, 2>>}
LedgerAmounts == {30000}
AccountIds == {"acct-amex", "acct-checking"}
BudgetIds == {"budget-1"}
RequestDates == {<<2024, 1, 31>>, <<2024, 2, 1>>}

\* what the remote budget can hold: transactions of several accounts, some
\* deleted, each with a unique id
LedgerLists(n) ==
  UNION {{[i \in 1..k |-> [id |-> YnabIds[i], date |-> f[i][1], amount |-> f[i][2],
                            account_id |-> f[i][3], deleted |-> f[i][4]]] :
            f \in [1..k -> LedgerDates \X LedgerAmounts \X AccountIds \X BOOLEAN]} :
         k \in 0..n}

\* INTEGER PRIMARY KEY AUTOINCREMENT
NextRowId == sqliteSequence + 1

\* a row as db.insertTransaction stores it, not reconciled (of a row, the
\* fields that the reconciliation code reads or writes; an SQL NULL is the
\* empty sequence, a value v the sequence <<v>>)
StoredRow(id, date, amount) ==
  [id |-> id, date |-> date, amount |-> amount,
   reconciled |-> FALSE, ynab_transaction_id |-> <<>>, reconciled_at |-> <<>>]

\* the rows of the latest of these dates, then those of the next, and so on
RECURSIVE RowsByDateDesc(_, _)
RowsByDateDesc(rows, dates) ==
  IF dates = {} THEN <<>>
  ELSE LET latest == CHOOSE d \in dates : \A e \in dates : DateLeq(e, d)
           OfLatest(r) == r.date = latest
       IN SelectSeq(rows, OfLatest) \o RowsByDateDesc(rows, dates \ {latest})

\* ORDER BY date DESC: a row goes behind the rows that are not older than it
\* (rows of one date stay in rowid order)
OrderByDateDesc(rows) ==
  RowsByDateDesc(rows, {rows[i].date : i \in 1..Len(rows)})

\* db.getTransactionsByDateRange
dbGetTransactionsByDateRange(rows, startDate, endDate) ==
  OrderByDateDesc(SelectSeqBy(rows,
    {r \in Range(rows) : DateLeq(startDate, r.date) /\ DateLeq(r.date, endDate)}))

\* the response of GET /budgets/{id}/transactions?since_date=...: the
\* budget's transactions dated on or after since_date
apiTransactionsSince(budget, sinceDate) ==
  SelectSeqBy(budget, {t \in Range(budget) : DateLeq(sinceDate, t.date)})

\* the field mapping of the client (ynabClient.ts lines 111-120)
toYnabTransaction(txn) ==
  [id |-> txn.id, date |-> txn.date, amount |-> txn.amount, deleted |-> txn.deleted]

clientGetTransactionsSince(budget, startDate, endDate) ==
  LET all == apiTransactionsSince(budget, startDate) IN
  [i \in 1..Len(all) |-> toYnabTransaction(all[i])]

\* YnabClient.getTransactionsByDateRange
clientGetTransactionsByDateRange(budget, startDate, endDate) ==
  LET all == apiTransactionsSince(budget, startDate)
      allTransactions == [i \in 1..Len(all) |-> toYnabTransaction(all[i])]
  IN SelectSeqBy(allTransactions,
                 {t \in Range(allTransactions) : DateLeq(t.date, endDate)})

\* messages of the errors YnabClient.handleError builds
LedgerErrors ==
  {"Rate limit exceeded. Please try again later."}

----------------------------------------------------------------------------
(* ReconciliationService.reconcile *)

\* the value reconcile returns when nothing throws
reconcileResult(rows, budget, cfg, budgetId, startDate, endDate) ==
  LET cards == dbGetTransactionsByDateRange(rows, startDate, endDate)
      ynabTxns == clientGetTransactionsByDateRange(budget, startDate, endDate)
      filteredYnabTransactions ==
        IF cfg.excludeDeletedTransactions
        THEN SelectSeqBy(ynabTxns, {t \in Range(ynabTxns) : ~t.deleted})
        ELSE ynabTxns
      m == matchTransactions(cards, filteredYnabTransactions, cfg)
  IN [returned |-> TRUE,
      success |-> TRUE,
      dateRange |-> [startDate |-> startDate, endDate |-> endDate],
      budgetId |-> budgetId,
      cardTransactionCount |-> Len(cards),
      ynabTransactionCount |-> Len(filteredYnabTransactions),
      matchedCount |-> Len(m.matched),
      discrepancies |-> m,
      error |-> <<>>]

reconcileFailureWithoutError(budgetId, startDate, endDate, message) ==
  [returned |-> TRUE,
   success |-> FALSE,
   dateRange |-> [startDate |-> startDate, endDate |-> endDate],
   budgetId |-> budgetId,
   cardTransactionCount |-> 0,
   ynabTransactionCount |-> 0,
   matchedCount |-> 0,
   discrepancies |-> [matched |-> <<>>, missingInYnab |-> <<>>, unexpectedInYnab |-> <<>>],
   error |-> <<>>]

\* the value reconcile returns from its catch block
reconcileFailure(budgetId, startDate, endDate, message) ==
  [returned |-> TRUE,
   success |-> FALSE,
   dateRange |-> [startDate |-> startDate, endDate |-> endDate],
   budgetId |-> budgetId,
   cardTransactionCount |-> 0,
   ynabTransactionCount |-> 0,
   matchedCount |-> 0,
   discrepancies |-> [matched |-> <<>>, missingInYnab |-> <<>>, unexpectedInYnab |-> <<>>],
   error |-> <<message>>]

\* the service as constructed with { dateTolerance: 1 }
ServiceConfigs == {MergeConfig([dateTolerance |-> 1])}

InitReconcile ==
  /\ transactions = <<>>
  /\ ledger \in LedgerLists(MaxLedger)
  /\ config \in ServiceConfigs
  /\ request = NoRequest
  /\ result = NoResult
  /\ cardTransactions = <<>>
  /\ ynabTransactions = <<>>
  /\ candidates = <<>>
  /\ candidatesFor = 0
  /\ report = NoReport
  /\ HandlersIdle
  /\ sqliteSequence = Len(transactions)
  /\ inFlight = NoneInFlight

\* db.insertTransaction: a statement transaction is stored under a fresh id
InsertTransaction(date, amount) ==
  /\ Len(transactions) < MaxRows
  /\ transactions' = Append(transactions, StoredRow(NextRowId, date, amount))
  /\ sqliteSequence' = NextRowId
  /\ UNCHANGED <<engineVars, config, ledger, request, result, handlerVars, inFlight>>

\* a reconcile run that the caller asks for account accountId; the service
\* method takes the budget and the date range only
Reconcile(budgetId, accountId, startDate, endDate) ==
  /\ DateLeq(startDate, endDate)
  /\ request' = [made |-> TRUE, budgetId |-> budgetId, accountId |-> accountId,
                 startDate |-> startDate, endDate |-> endDate]
  /\ result' = reconcileResult(transactions, ledger, config, budgetId, startDate, endDate)
  /\ UNCHANGED <<engineVars, sqliteSequence, inFlight, config, transactions, ledger, handlerVars>>

\* a reconcile run in which the store read or the ledger fetch throws
ReconcileFails(budgetId, accountId, startDate, endDate, message) ==
  /\ DateLeq(startDate, endDate)
  /\ request' = [made |-> TRUE, budgetId |-> budgetId, accountId |-> accountId,
                 startDate |-> startDate, endDate |-> endDate]
  /\ result' = reconcileFailure(budgetId, startDate, endDate, message)
  /\ UNCHANGED <<engineVars, sqliteSequence, inFlight, config, transactions, ledger, handlerVars>>

NextReconcile ==
  \/ \E d \in RowDates, a \in RowAmounts : InsertTransaction(d, a)
  \/ \E b \in BudgetIds, acct \in AccountIds, s \in RequestDates, e \in RequestDates :
       Reconcile(b, acct, s, e)
  \/ \E b \in BudgetIds, acct \in AccountIds, s \in RequestDates, e \in RequestDates,
        msg \in LedgerErrors :
       ReconcileFails(b, acct, s, e, msg)

SpecReconcile == InitReconcile /\ [][NextReconcile]_vars

----------------------------------------------------------------------------
(* Reconciliation markers and the reconciliation log (db.ts) *)

updateReconciledKeepsMarker(rows, cardId, ynabId, now) ==
  [i \in 1..Len(rows) |->
     IF rows[i].id = cardId /\ ~rows[i].reconciled
     THEN [rows[i] EXCEPT !.reconciled = TRUE,
                          !.ynab_transaction_id = <<ynabId>>,
                          !.reconciled_at = <<now>>]
     ELSE rows[i]]

\* UPDATE transactions SET reconciled = 1, ynab_transaction_id = ?,
\* reconciled_at = ? WHERE id = ?
updateReconciled(rows, cardId, ynabId, now) ==
  [i \in 1..Len(rows) |->
     IF rows[i].id = cardId
     THEN [rows[i] EXCEPT !.reconciled = TRUE,
                          !.ynab_transaction_id = <<ynabId>>,
                          !.reconciled_at = <<now>>]
     ELSE rows[i]]

\* info.changes of an UPDATE ... WHERE id = ?: the number of rows with that id
changes(rows, cardId) == Cardinality({i \in 1..Len(rows) : rows[i].id = cardId})

\* db.batchMarkReconciled: the loop over the match pairs
RECURSIVE batchMarkLoop(_, _, _, _, _)
batchMarkLoop(rows, matchPairs, now, updated, errors) ==
  IF matchPairs = <<>>
  THEN [rows |-> rows, updated |-> updated, errors |-> errors]
  ELSE LET match == Head(matchPairs) IN
       IF changes(rows, match.cardId) > 0
       THEN batchMarkLoop(updateReconciled(rows, match.cardId, match.ynabId, now),
                          Tail(matchPairs), now, updated + 1, errors)
       ELSE batchMarkLoop(rows, Tail(matchPairs), now, updated,
                          Append(errors, [cardId |-> match.cardId,
                                          error |-> "Transaction not found"]))

batchMarkStopsAtFailure(rows, matches, now) ==
  LET failing == {k \in 1..Len(matches) : changes(rows, matches[k].cardId) = 0}
      last == IF failing = {} THEN Len(matches)
              ELSE CHOOSE k \in failing : \A j \in failing : k <= j
  IN batchMarkLoop(rows, SubSeq(matches, 1, last), now, 0, <<>>)

\* db.batchMarkReconciled: the rows after the batch and the value returned
batchMarkReconciled(rows, matches, now) == batchMarkLoop(rows, matches, now, 0, <<>>)

unreconcileLeavesLedgerId(rows, cardTransactionId) ==
  [rows |-> [i \in 1..Len(rows) |->
               IF rows[i].id = cardTransactionId
               THEN [rows[i] EXCEPT !.reconciled = FALSE]
               ELSE rows[i]],
   returned |-> changes(rows, cardTransactionId) > 0]

\* db.unreconcileTransaction: the rows after the UPDATE and the value returned
unreconcileTransaction(rows, cardTransactionId) ==
  [rows |-> [i \in 1..Len(rows) |->
               IF rows[i].id = cardTransactionId
               THEN [rows[i] EXCEPT !.reconciled = FALSE,
                                    !.ynab_transaction_id = <<>>,
                                    !.reconciled_at = <<>>]
               ELSE rows[i]],
   returned |-> changes(rows, cardTransactionId) > 0]

insertReconciliationLogReplacing(logs, log) ==
  <<[id |-> 1] @@ log>>

\* db.insertReconciliationLog: the table after the INSERT
insertReconciliationLog(logs, log) ==
  Append(logs, [id |-> Len(logs) + 1] @@ log)

----------------------------------------------------------------------------
(* ReconciliationService.reconcileAndPersist *)

\* matches handed to batchMarkReconciled (lines 153-156)
matchPairsOf(matched) ==
  [k \in 1..Len(matched) |->
     [cardId |-> matched[k].cardTransaction.id, ynabId |-> matched[k].ynabTransaction.id]]

persistStepWhateverPersist(res, rows, cfg, logs, now, budgetId, startDate, endDate, persist) ==
  [result |-> res,
   actions |-> [returned |-> TRUE, canPersist |-> res.matchedCount > 0,
                canFlag |-> Len(res.discrepancies.unexpectedInYnab) > 0,
                canCreate |-> Len(res.discrepancies.missingInYnab) > 0,
                persistedCount |-> <<>>],
   transactions |-> batchMarkReconciled(rows, matchPairsOf(res.discrepancies.matched), now).rows,
   reconciliationLogs |-> logs]

\* reconcileAndPersist after reconcile has returned res: the value returned
\* and the two tables as it leaves them
persistStep(res, rows, cfg, logs, now, budgetId, startDate, endDate, persist) ==
  LET canPersist == res.matchedCount > 0
      persistResult == batchMarkReconciled(rows, matchPairsOf(res.discrepancies.matched), now)
      log == [budget_id |-> budgetId,
              start_date |-> startDate,
              end_date |-> endDate,
              matched_count |-> res.matchedCount,
              missing_in_ynab_count |-> Len(res.discrepancies.missingInYnab),
              unexpected_in_ynab_count |-> Len(res.discrepancies.unexpectedInYnab),
              flagged_count |-> 0,
              created_in_ynab_count |-> 0,
              reconciled_at |-> now,
              config |-> <<cfg>>]
  IN [result |-> res,
      actions |-> [returned |-> TRUE,
                   canPersist |-> canPersist,
                   canFlag |-> Len(res.discrepancies.unexpectedInYnab) > 0,
                   canCreate |-> Len(res.discrepancies.missingInYnab) > 0,
                   persistedCount |-> IF persist /\ canPersist
                                      THEN <<persistResult.updated>> ELSE <<>>],
      transactions |-> IF persist /\ canPersist THEN persistResult.rows ELSE rows,
      reconciliationLogs |-> IF persist /\ canPersist
                             THEN insertReconciliationLog(logs, log) ELSE logs]

reconcileAndPersist(rows, budget, cfg, logs, now, budgetId, startDate, endDate, persist) ==
  persistStep(reconcileResult(rows, budget, cfg, budgetId, startDate, endDate),
              rows, cfg, logs, now, budgetId, startDate, endDate, persist)

----------------------------------------------------------------------------
(* The store under reconcile runs, manual persists and unmatches.  In this  *)
(* specification request, result, actions, outcome and response hold what   *)
(* the last handler received and returned; clock counts the ticks at which  *)
(* a handler wrote a timestamp to the store.                                *)

PersistYnabIds == {"ynab-1", "ynab-2"}

\* a live transaction of the card account of the remote budget
LedgerEntry(id, date) ==
  [id |-> id, date |-> date, amount |-> 30000, account_id |-> "acct-amex",
   deleted |-> FALSE]

\* remote budgets: one transaction dated the day after the statement date,
\* or one on the statement date followed by one the day after
PersistLedgers ==
  {<<LedgerEntry("ynab-1", <<2024, 2, 1>>)>>,
   <<LedgerEntry("ynab-1", <<2024, 1, 31>>), LedgerEntry("ynab-2", <<2024, 2, 1>>)>>}

\* stores after an import of one or of two statement transactions
PersistStores ==
  {<<StoredRow(1, <<2024, 1, 31>>, 300000)>>,
   <<StoredRow(1, <<2024, 1, 31>>, 300000), StoredRow(2, <<2024, 1, 31>>, 300000)>>}

\* the matches array of a POST /persist body: empty, or one pair naming a
\* stored row or an id that no row has
MatchLists ==
  {<<>>} \cup {<<m>> : m \in [cardId : 1..(Len(transactions) + 1), ynabId : PersistYnabIds]}

\* budgetId, startDate and endDate of a POST /persist body: absent or present
LogRanges ==
  {<<>>, <<[budgetId |-> "budget-1", startDate |-> <<2024, 1, 31>>,
            endDate |-> <<2024, 2, 1>>]>>}

OkResponse == [sent |-> TRUE, status |-> 200]

InitPersist ==
  /\ transactions \in PersistStores
  /\ ledger \in PersistLedgers
  /\ config \in ServiceConfigs
  /\ request = NoRequest
  /\ result = NoResult
  /\ cardTransactions = <<>>
  /\ ynabTransactions = <<>>
  /\ candidates = <<>>
  /\ candidatesFor = 0
  /\ report = NoReport
  /\ HandlersIdle
  /\ sqliteSequence = Len(transactions)
  /\ inFlight = NoneInFlight

\* reconcileAndPersist, reconcile returning res
PersistRun(res, budgetId, startDate, endDate, persist) ==
  LET out == persistStep(res, transactions, config, reconciliationLogs, clock + 1,
                         budgetId, startDate, endDate, persist)
      wrote == out.actions.persistedCount # <<>>
  IN /\ wrote => clock < MaxClock
     /\ request' = [made |-> TRUE, budgetId |-> budgetId, startDate |-> startDate,
                    endDate |-> endDate, persist |-> persist]
     /\ result' = out.result
     /\ actions' = out.actions
     /\ transactions' = out.transactions
     /\ reconciliationLogs' = out.reconciliationLogs
     /\ clock' = IF wrote THEN clock + 1 ELSE clock
     /\ outcome' = NoOutcome
     /\ response' = NoResponse
     /\ UNCHANGED <<engineVars, sqliteSequence, config, ledger, calls>>

\* a call of reconcileAndPersist in which nothing throws
ReconcileAndPersist(budgetId, startDate, endDate, persist) ==
  /\ DateLeq(startDate, endDate)
  /\ PersistRun(reconcileResult(transactions, ledger, config, budgetId, startDate, endDate),
                budgetId, startDate, endDate, persist)
  /\ UNCHANGED inFlight

\* a call of reconcileAndPersist in which the store read or the ledger fetch
\* of reconcile throws
ReconcileAndPersistFails(budgetId, startDate, endDate, persist, message) ==
  /\ DateLeq(startDate, endDate)
  /\ PersistRun(reconcileFailure(budgetId, startDate, endDate, message),
                budgetId, startDate, endDate, persist)
  /\ UNCHANGED inFlight

\* POST /api/reconcile/persist with a matches array
PostPersist(matches, logRange) ==
  LET out == batchMarkReconciled(transactions, matches, clock + 1)
      logged == logRange # <<>>
      wrote == out.updated > 0 \/ logged
  IN /\ wrote => clock < MaxClock
     /\ transactions' = out.rows
     /\ reconciliationLogs' =
          IF logged
          THEN insertReconciliationLog(reconciliationLogs,
                 [budget_id |-> logRange[1].budgetId,
                  start_date |-> logRange[1].startDate,
                  end_date |-> logRange[1].endDate,
                  matched_count |-> out.updated,
                  missing_in_ynab_count |-> 0,
                  unexpected_in_ynab_count |-> 0,
                  flagged_count |-> 0,
                  created_in_ynab_count |-> 0,
                  reconciled_at |-> clock + 1,
                  config |-> <<>>])
          ELSE reconciliationLogs
     /\ clock' = IF wrote THEN clock + 1 ELSE clock
     /\ outcome' = [op |-> "batchMarkReconciled",
                    updated |-> out.updated, errors |-> out.errors]
     /\ response' = OkResponse
     /\ request' = NoRequest
     /\ result' = NoResult
     /\ actions' = NoActions
     /\ UNCHANGED <<engineVars, sqliteSequence, inFlight, config, ledger, calls>>

\* DELETE /api/reconcile/match/:cardTransactionId
DeleteMatch(cardTransactionId) ==
  LET out == unreconcileTransaction(transactions, cardTransactionId) IN
  /\ transactions' = out.rows
  /\ outcome' = [op |-> "unreconcileTransaction", cardTransactionId |-> cardTransactionId,
                 unmatched |-> out.returned]
  /\ response' = OkResponse
  /\ request' = NoRequest
  /\ result' = NoResult
  /\ actions' = NoActions
  /\ UNCHANGED <<engineVars, sqliteSequence, inFlight, config, ledger, clock, reconciliationLogs, calls>>

NextPersist ==
  \/ \E b \in BudgetIds, s \in RequestDates, e \in RequestDates, persist \in BOOLEAN :
       ReconcileAndPersist(b, s, e, persist)
  \/ \E b \in BudgetIds, s \in RequestDates, e \in RequestDates, persist \in BOOLEAN,
        msg \in LedgerErrors :
       ReconcileAndPersistFails(b, s, e, persist, msg)
  \/ \E matches \in MatchLists, logRange \in LogRanges :
       PostPersist(matches, logRange)
  \/ \E id \in 1..(Len(transactions) + 1) : DeleteMatch(id)

SpecPersist == InitPersist /\ [][NextPersist]_vars

----------------------------------------------------------------------------
(* Concurrent calls of reconcileAndPersist.  A call runs until it suspends  *)
(* at an await: it reads the store and suspends until the ledger answers    *)
(* (reconcile, lines 78-85), matches and suspends until the caller resumes  *)
(* (line 141), then writes the markers and the log entry without suspending *)
(* in between (lines 152-172).  Other calls and unmatch requests run while  *)
(* it is suspended.                                                         *)

\* the date ranges of the concurrent runs: they overlap on 2024-01-31
ConcurrentRanges ==
  {[startDate |-> <<2024, 1, 31>>, endDate |-> <<2024, 1, 31>>],
   [startDate |-> <<2024, 1, 31>>, endDate |-> <<2024, 2, 1>>]}

InitConcurrent ==
  /\ transactions = <<StoredRow(1, <<2024, 1, 31>>, 300000), StoredRow(2, <<2024, 2, 1>>, 300000)>>
  /\ ledger = <<LedgerEntry("ynab-1", <<2024, 1, 31>>), LedgerEntry("ynab-2", <<2024, 2, 1>>)>>
  /\ config \in ServiceConfigs
  /\ request = NoRequest
  /\ result = NoResult
  /\ cardTransactions = <<>>
  /\ ynabTransactions = <<>>
  /\ candidates = <<>>
  /\ candidatesFor = 0
  /\ report = NoReport
  /\ HandlersIdle
  /\ sqliteSequence = Len(transactions)
  /\ inFlight = NoneInFlight

\* a call of reconcileAndPersist up to the ledger request: the rows of the
\* range are read now
StartRun(run, budgetId, range, persist) ==
  /\ inFlight[run].pc = "idle"
  /\ inFlight' = [inFlight EXCEPT ![run] =
                    [pc |-> "fetching", budgetId |-> budgetId,
                     startDate |-> range.startDate, endDate |-> range.endDate,
                     persist |-> persist, rows |-> transactions]]
  /\ UNCHANGED <<engineVars, sqliteSequence, config, transactions, ledger, request, result,
                 handlerVars>>

\* the ledger answers: reconcile matches the rows it read with the answer
\* and returns
FetchReturns(run) ==
  LET call == inFlight[run] IN
  /\ call.pc = "fetching"
  /\ inFlight' = [inFlight EXCEPT ![run] =
                    [pc |-> "persisting", budgetId |-> call.budgetId,
                     startDate |-> call.startDate, endDate |-> call.endDate,
                     persist |-> call.persist,
                     res |-> reconcileResult(call.rows, ledger, config, call.budgetId,
                                             call.startDate, call.endDate)]]
  /\ UNCHANGED <<engineVars, sqliteSequence, config, transactions, ledger, request, result,
                 handlerVars>>

\* the ledger request fails: reconcile returns from its catch block
FetchFails(run, message) ==
  LET call == inFlight[run] IN
  /\ call.pc = "fetching"
  /\ inFlight' = [inFlight EXCEPT ![run] =
                    [pc |-> "persisting", budgetId |-> call.budgetId,
                     startDate |-> call.startDate, endDate |-> call.endDate,
                     persist |-> call.persist,
                     res |-> reconcileFailure(call.budgetId, call.startDate, call.endDate,
                                              message)]]
  /\ UNCHANGED <<engineVars, sqliteSequence, config, transactions, ledger, request, result,
                 handlerVars>>

\* the call resumes after reconcile: it writes the markers and the log entry
\* and returns
FinishRun(run) ==
  LET call == inFlight[run] IN
  /\ call.pc = "persisting"
  /\ PersistRun(call.res, call.budgetId, call.startDate, call.endDate, call.persist)
  /\ inFlight' = [inFlight EXCEPT ![run] = NotRunning]

NextConcurrent ==
  \/ \E run \in Runs, b \in BudgetIds, range \in ConcurrentRanges : StartRun(run, b, range, TRUE)
  \/ \E run \in Runs : FetchReturns(run)
  \/ \E run \in Runs, msg \in LedgerErrors : FetchFails(run, msg)
  \/ \E run \in Runs : FinishRun(run)
  \/ \E id \in 1..2 : DeleteMatch(id)

SpecConcurrent == InitConcurrent /\ [][NextConcurrent]_vars

----------------------------------------------------------------------------
(* Calls of db.batchMarkReconciled with lists of several pairs *)

\* lists of at most n pairs, each naming a stored row or an id that no row has
RECURSIVE PairLists(_)
PairLists(n) ==
  IF n = 0 THEN {<<>>}
  ELSE LET shorter == PairLists(n - 1) IN
       shorter \cup
         {Append(l, m) : l \in {x \in shorter : Len(x) = n - 1},
                         m \in [cardId : 1..(Len(transactions) + 1), ynabId : PersistYnabIds]}

\* a call of batchMarkReconciled
BatchMarkReconciled(matches) ==
  \E out \in {batchMarkReconciled(transactions, matches, clock + 1)} :
    /\ out.updated > 0 => clock < MaxClock
    /\ transactions' = out.rows
    /\ clock' = IF out.updated > 0 THEN clock + 1 ELSE clock
    /\ outcome' = [op |-> "batchMarkReconciled", matches |-> matches,
                   updated |-> out.updated, errors |-> out.errors]
    /\ UNCHANGED <<engineVars, sqliteSequence, inFlight, config, ledger, request, result,
                   reconciliationLogs, actions, calls, response>>

NextBatch == \E matches \in PairLists(MaxPairs) : BatchMarkReconciled(matches)

\* the store after an import of two statement transactions; no remote
\* budget is read
InitBatch ==
  /\ transactions = <<StoredRow(1, <<2024, 1, 31>>, 300000), StoredRow(2, <<2024, 1, 31>>, 300000)>>
  /\ ledger = <<>>
  /\ config \in ServiceConfigs
  /\ request = NoRequest
  /\ result = NoResult
  /\ cardTransactions = <<>>
  /\ ynabTransactions = <<>>
  /\ candidates = <<>>
  /\ candidatesFor = 0
  /\ report = NoReport
  /\ HandlersIdle
  /\ sqliteSequence = Len(transactions)
  /\ inFlight = NoneInFlight

SpecBatch == InitBatch /\ [][NextBatch]_vars

----------------------------------------------------------------------------
(* Writes to the remote budget (ynabClient.ts) *)

DuplicateMessage == "Duplicate transaction: import_id already exists"
RateLimitMessage == "Rate limit exceeded. Please try again later."
FlagNotFoundMessage == "Failed to update flag for transaction: Not found"

IncludesDuplicateNever(message) == FALSE

\* error.message.includes('Duplicate transaction'), on the messages above
IncludesDuplicateTransaction(message) == message = DuplicateMessage

\* what can go wrong with one request to the remote API: nothing, or a
\* refusal with status 429 before the request takes effect
Faults == {"none", "refused"}

clientCreateTransactionNoConflict(budget, accountId, transaction, fault) ==
  LET stored == Append(budget,
                  [id |-> YnabIds[Len(budget) + 1],
                   account_id |-> accountId,
                   date |-> transaction.date,
                   amount |-> transaction.amount,
                   memo |-> transaction.memo,
                   cleared |-> transaction.cleared,
                   import_id |-> transaction.import_id,
                   flag_color |-> <<>>,
                   deleted |-> FALSE])
  IN IF fault = "refused" \/ Len(budget) >= Len(YnabIds)
     THEN [budget |-> budget, thrown |-> <<RateLimitMessage>>]
     ELSE [budget |-> stored, thrown |-> <<>>]

\* POST /budgets/{budget_id}/transactions; the remote budget answers a
\* repeated import_id with status 409.  Returns the budget afterwards and
\* the message of the error the client throws, if it throws.
clientCreateTransaction(budget, accountId, transaction, fault) ==
  LET duplicate == \E i \in 1..Len(budget) : budget[i].import_id = transaction.import_id
      stored == Append(budget,
                  [id |-> YnabIds[Len(budget) + 1],
                   account_id |-> accountId,
                   date |-> transaction.date,
                   amount |-> transaction.amount,
                   memo |-> transaction.memo,
                   cleared |-> transaction.cleared,
                   import_id |-> transaction.import_id,
                   flag_color |-> <<>>,
                   deleted |-> FALSE])
  IN IF fault = "refused" THEN [budget |-> budget, thrown |-> <<RateLimitMessage>>]
     ELSE IF duplicate THEN [budget |-> budget, thrown |-> <<DuplicateMessage>>]
     ELSE [budget |-> stored, thrown |-> <<>>]

\* PATCH /budgets/{budget_id}/transactions/{transaction_id}
clientUpdateTransactionFlag(budget, transactionId, flagColor, fault) ==
  LET exists == \E i \in 1..Len(budget) : budget[i].id = transactionId
      patched == [i \in 1..Len(budget) |->
                    IF budget[i].id = transactionId
                    THEN [budget[i] EXCEPT !.flag_color = <<flagColor>>]
                    ELSE budget[i]]
  IN IF fault = "refused" THEN [budget |-> budget, thrown |-> <<RateLimitMessage>>]
     ELSE IF ~exists THEN [budget |-> budget, thrown |-> <<FlagNotFoundMessage>>]
     ELSE [budget |-> patched, thrown |-> <<>>]

----------------------------------------------------------------------------
(* ReconciliationService.flagUnexpectedInYnab and createMissingInYnab *)

\* db.getTransactions(limit, offset): ORDER BY date DESC LIMIT ? OFFSET ?
dbGetTransactions(rows, limit, offset) ==
  LET ordered == OrderByDateDesc(rows)
      last == IF Len(ordered) < offset + limit THEN Len(ordered) ELSE offset + limit
  IN SubSeq(ordered, offset + 1, last)

CreateLookupLimit == 1000

\* flagUnexpectedInYnab: the loop over ynabTransactionIds.  acc carries the
\* budget, the client calls made so far, flagged and errors.
RECURSIVE flagLoop(_, _, _, _)
flagLoop(ynabTransactionIds, faults, flagColor, acc) ==
  IF ynabTransactionIds = <<>> THEN acc
  ELSE LET txnId == Head(ynabTransactionIds)
           reply == clientUpdateTransactionFlag(acc.budget, txnId, flagColor, Head(faults))
           called == Append(acc.calls, [op |-> "updateTransactionFlag", id |-> txnId,
                                        thrown |-> reply.thrown])
       IN flagLoop(Tail(ynabTransactionIds), Tail(faults), flagColor,
            IF reply.thrown = <<>>
            THEN [acc EXCEPT !.budget = reply.budget, !.calls = called,
                             !.flagged = @ + 1]
            ELSE [acc EXCEPT !.budget = reply.budget, !.calls = called,
                             !.errors = Append(@, [id |-> txnId, error |-> reply.thrown[1]])])

flagUnexpectedInYnabAlwaysSucceeds(budget, ynabTransactionIds, flagColor, faults) ==
  LET final == flagLoop(ynabTransactionIds, faults, flagColor,
                        [budget |-> budget, calls |-> <<>>, flagged |-> 0, errors |-> <<>>])
  IN [budget |-> final.budget,
      calls |-> final.calls,
      returned |-> [success |-> TRUE,
                    flagged |-> final.flagged,
                    errors |-> final.errors]]

flagUnexpectedInYnab(budget, ynabTransactionIds, flagColor, faults) ==
  LET final == flagLoop(ynabTransactionIds, faults, flagColor,
                        [budget |-> budget, calls |-> <<>>, flagged |-> 0, errors |-> <<>>])
  IN [budget |-> final.budget,
      calls |-> final.calls,
      returned |-> [success |-> Len(final.errors) = 0,
                    flagged |-> final.flagged,
                    errors |-> final.errors]]

\* createMissingInYnab: the loop over cardTransactionIds.  acc carries the
\* budget, the client calls made so far, created, skipped and errors.
RECURSIVE createLoop(_, _, _, _, _)
createLoop(cardTransactionIds, faults, accountId, allCardTransactions, acc) ==
  IF cardTransactionIds = <<>> THEN acc
  ELSE
    LET cardId == Head(cardTransactionIds)
        found == {i \in 1..Len(allCardTransactions) : allCardTransactions[i].id = cardId}
    IN IF found = {}
       THEN createLoop(Tail(cardTransactionIds), Tail(faults), accountId, allCardTransactions,
              [acc EXCEPT !.errors = Append(@, [cardId |-> cardId,
                                                error |-> "Transaction not found"])])
       ELSE
         LET cardTxn == allCardTransactions[CHOOSE i \in found : TRUE]
             importId == generateImportId(cardTxn.amount, cardTxn.date, cardTxn.reference)
             reply == clientCreateTransaction(acc.budget, accountId,
                        [date |-> cardTxn.date,
                         amount |-> amountToMilliunits(cardTxn.amount),
                         memo |-> cardTxn.reference,
                         cleared |-> "uncleared",
                         import_id |-> importId],
                        Head(faults))
             called == Append(acc.calls, [op |-> "createTransaction", cardId |-> cardId,
                                          thrown |-> reply.thrown])
         IN createLoop(Tail(cardTransactionIds), Tail(faults), accountId, allCardTransactions,
              IF reply.thrown = <<>>
              THEN [acc EXCEPT !.budget = reply.budget, !.calls = called,
                               !.created = @ + 1]
              ELSE IF IncludesDuplicateTransaction(reply.thrown[1])
              THEN [acc EXCEPT !.budget = reply.budget, !.calls = called,
                               !.skipped = @ + 1]
              ELSE [acc EXCEPT !.budget = reply.budget, !.calls = called,
                               !.errors = Append(@, [cardId |-> cardId,
                                                     error |-> reply.thrown[1]])])

createMissingInYnab(rows, budget, accountId, cardTransactionIds, faults) ==
  LET final == createLoop(cardTransactionIds, faults, accountId,
                          dbGetTransactions(rows, CreateLookupLimit, 0),
                          [budget |-> budget, calls |-> <<>>, created |-> 0,
                           skipped |-> 0, errors |-> <<>>])
  IN [budget |-> final.budget,
      calls |-> final.calls,
      returned |-> [success |-> Len(final.errors) = 0,
                    created |-> final.created,
                    skipped |-> final.skipped,
                    errors |-> final.errors]]

----------------------------------------------------------------------------
(* The remote budget under createMissingInYnab and flagUnexpectedInYnab.    *)
(* outcome holds the ids given to the last call and the value it returned,  *)
(* calls the requests its ledger client made, in order.                     *)

\* statement references: two that agree on their first 12 characters, and a
\* short one
ReferencePrefix == <<"A", "T", "2", "4", "0", "0", "1", "0", "0", "0", "1", "0">>
ReferenceA == ReferencePrefix \o <<"0", "1">>
ReferenceB == ReferencePrefix \o <<"0", "2">>
ReferenceC == <<"R", "3">>

CreateAccountIds == {"acct-amex"}

----------------------------------------------------------------------------
(* YnabClient.generateImportId on its own: two calls with inputs drawn from *)
(* bounded sets; outcome holds the two inputs and the two keys returned.    *)

ImportAmounts == {300000, 300010, -300000}
ImportDates == {<<2024, 1, 31>>, <<2024, 2, 1>>}
ImportReferences == {ReferenceA, ReferenceB, ReferenceC}

ImportInputs == [amount : ImportAmounts, date : ImportDates, reference : ImportReferences]

InitImportId ==
  /\ transactions = <<>>
  /\ ledger = <<>>
  /\ config \in ServiceConfigs
  /\ request = NoRequest
  /\ result = NoResult
  /\ cardTransactions = <<>>
  /\ ynabTransactions = <<>>
  /\ candidates = <<>>
  /\ candidatesFor = 0
  /\ report = NoReport
  /\ HandlersIdle
  /\ sqliteSequence = Len(transactions)
  /\ inFlight = NoneInFlight

\* two calls of generateImportId
GenerateImportIds(first, second) ==
  /\ outcome' = [op |-> "generateImportId", first |-> first, second |-> second,
                 keys |-> <<generateImportId(first.amount, first.date, first.reference),
                            generateImportId(second.amount, second.date, second.reference)>>]
  /\ UNCHANGED <<engineVars, sqliteSequence, inFlight, config, transactions, ledger, request, result, clock,
                 reconciliationLogs, actions, calls, response>>

NextImportId == \E first \in ImportInputs, second \in ImportInputs : GenerateImportIds(first, second)

SpecImportId == InitImportId /\ [][NextImportId]_vars

\* a stored row with its reference (UNIQUE NOT NULL)
ReferencedRow(id, date, amount, reference) ==
  [id |-> id, date |-> date, amount |-> amount, reference |-> reference,
   reconciled |-> FALSE, ynab_transaction_id |-> <<>>, reconciled_at |-> <<>>]

\* the store after an import of two statement transactions
WriteStores ==
  {<<ReferencedRow(1, <<2024, 1, 31>>, 300000, ReferenceA),
     ReferencedRow(2, <<2024, 2, 1>>, 300000, ReferenceC)>>}

\* a remote budget holding two live transactions without a flag
FlagLedgers ==
  {<<LedgerEntry("ynab-1", <<2024, 1, 31>>) @@ [flag_color |-> <<>>],
     LedgerEntry("ynab-2", <<2024, 2, 1>>) @@ [flag_color |-> <<>>]>>}

\* lists of up to n elements of S
ListsOf(S, n) == UNION {[1..k -> S] : k \in 0..n}

\* ids a caller can name: those of the rows, and one that no row has
CardIdInputs == 1..(Len(transactions) + 1)

\* ids a caller can name: those of the budget, and one that it does not hold
YnabIdInputs == {ledger[i].id : i \in 1..Len(ledger)} \cup {YnabIds[4]}

InitWrite(ledgers) ==
  /\ transactions \in WriteStores
  /\ ledger \in ledgers
  /\ config \in ServiceConfigs
  /\ request = NoRequest
  /\ result = NoResult
  /\ cardTransactions = <<>>
  /\ ynabTransactions = <<>>
  /\ candidates = <<>>
  /\ candidatesFor = 0
  /\ report = NoReport
  /\ HandlersIdle
  /\ sqliteSequence = Len(transactions)
  /\ inFlight = NoneInFlight

\* a call of createMissingInYnab; faults[k] is what goes wrong with the
\* request made for the k-th id
CreateMissingInYnab(budgetId, accountId, cardTransactionIds, faults) ==
  \E out \in {createMissingInYnab(transactions, ledger, accountId, cardTransactionIds, faults)} :
     /\ ledger' = out.budget
     /\ calls' = out.calls
     /\ outcome' = [op |-> "createMissingInYnab", ids |-> cardTransactionIds,
                    returned |-> out.returned]
     /\ UNCHANGED <<engineVars, sqliteSequence, inFlight, config, transactions, request, result, clock,
                    reconciliationLogs, actions, response>>

\* a call of flagUnexpectedInYnab with the default flag colour
FlagUnexpectedInYnab(budgetId, ynabTransactionIds, faults) ==
  LET out == flagUnexpectedInYnab(ledger, ynabTransactionIds, "orange", faults)
  IN /\ ledger' = out.budget
     /\ calls' = out.calls
     /\ outcome' = [op |-> "flagUnexpectedInYnab", ids |-> ynabTransactionIds,
                    returned |-> out.returned]
     /\ UNCHANGED <<engineVars, sqliteSequence, inFlight, config, transactions, request, result, clock,
                    reconciliationLogs, actions, response>>

InitCreate == InitWrite({<<>>})

NextCreate ==
  \E b \in BudgetIds, acct \in CreateAccountIds, ids \in ListsOf(CardIdInputs, MaxIds) :
    \E faults \in [1..Len(ids) -> Faults] : CreateMissingInYnab(b, acct, ids, faults)

SpecCreate == InitCreate /\ [][NextCreate]_vars

\* a store of one row more than createMissingInYnab looks up: row 1 is the
\* oldest, the others are of one later date; the references differ in their
\* first twelve characters
LargeStore ==
  [i \in 1..(CreateLookupLimit + 1) |->
     ReferencedRow(i, IF i = 1 THEN <<2024, 1, 30>> ELSE <<2024, 1, 31>>, 300000,
                   PadStart(i, ImportIdReferenceLength) \o <<"0", "1">>)]

InitLargeStore ==
  /\ transactions = LargeStore
  /\ ledger = <<>>
  /\ config \in ServiceConfigs
  /\ request = NoRequest
  /\ result = NoResult
  /\ cardTransactions = <<>>
  /\ ynabTransactions = <<>>
  /\ candidates = <<>>
  /\ candidatesFor = 0
  /\ report = NoReport
  /\ HandlersIdle
  /\ sqliteSequence = Len(transactions)
  /\ inFlight = NoneInFlight

\* lists of ids a caller can give: the id of the oldest row, ids of later
\* rows and one that no row has
LargeStoreIdLists ==
  {<<>>, <<1, 2>>} \cup {<<c>> : c \in {1, 2, 3, 4, Len(LargeStore) + 1}}

\* calls of createMissingInYnab whose requests the ledger service answers
NextLargeStore ==
  \E b \in BudgetIds, acct \in CreateAccountIds, ids \in LargeStoreIdLists :
    CreateMissingInYnab(b, acct, ids, [k \in 1..Len(ids) |-> "none"])

SpecLargeStore == InitLargeStore /\ [][NextLargeStore]_vars

InitFlag == InitWrite(FlagLedgers)

NextFlag ==
  \E b \in BudgetIds, ids \in ListsOf(YnabIdInputs, MaxIds) :
    \E faults \in [1..Len(ids) -> Faults] : FlagUnexpectedInYnab(b, ids, faults)

SpecFlag == InitFlag /\ [][NextFlag]_vars

----------------------------------------------------------------------------
(* POST /api/reconcile (server/routes/reconcile.ts).  A field of the body   *)
(* is the empty sequence when the body lacks it and <<v>> when it holds v;  *)
(* the two dates of a body are strings, so sequences of characters.         *)

IsDigit(c) == c \in Range(Digits)

\* /^\d{4}-\d{2}-\d{2}$/.test(str)
dateRegexTest(str) ==
  /\ Len(str) = 10
  /\ \A i \in {1, 2, 3, 4, 6, 7, 9, 10} : IsDigit(str[i])
  /\ str[5] = "-"
  /\ str[8] = "-"

\* the UTF-16 code unit of a character of a string that dateRegex accepts
CodeUnit(c) == IF c = "-" THEN 45 ELSE 47 + (CHOOSE k \in 1..10 : Digits[k] = c)

\* a > b of two strings: the first differing code unit decides
RECURSIVE StringGreater(_, _)
StringGreater(a, b) ==
  IF a = <<>> THEN FALSE
  ELSE IF b = <<>> THEN TRUE
  ELSE IF Head(a) # Head(b) THEN CodeUnit(Head(a)) > CodeUnit(Head(b))
  ELSE StringGreater(Tail(a), Tail(b))

dateRangeNeverInvalid(startDate, endDate) == FALSE

\* the test of line 57
dateRangeInvalid(startDate, endDate) == StringGreater(startDate, endDate)

\* the number that a string of digits prints
RECURSIVE ParseDigits(_)
ParseDigits(str) ==
  IF str = <<>> THEN 0
  ELSE ParseDigits(SubSeq(str, 1, Len(str) - 1)) * 10
         + ((CHOOSE k \in 1..10 : Digits[k] = str[Len(str)]) - 1)

\* the date that a string accepted by dateRegex stands for
ParseDate(str) ==
  <<ParseDigits(SubSeq(str, 1, 4)), ParseDigits(SubSeq(str, 6, 7)),
    ParseDigits(SubSeq(str, 9, 10))>>

UnauthorizedMessage == "Unauthorized: Invalid YNAB access token"
TokenRequiredMessage == "YNAB_ACCESS_TOKEN environment variable is required"
FetchNotFoundMessage == "Failed to fetch transactions for budget budget-1: Not found"

\* errorMessage.includes(...) on the messages the ledger client throws
IncludesUnauthorizedOrInvalid(message) == message = UnauthorizedMessage
IncludesNotFound(message) == message \in {FetchNotFoundMessage, FlagNotFoundMessage}
IncludesRateLimit(message) == message = RateLimitMessage

\* the response of the catch blocks of the route to an error thrown with
\* this message (of the messages of this model, the ones that include the
\* text that a branch looks for)
routeCatch(message) ==
  IF IncludesUnauthorizedOrInvalid(message)
  THEN [sent |-> TRUE, status |-> 401, code |-> "AUTH_FAILED"]
  ELSE IF IncludesNotFound(message)
  THEN [sent |-> TRUE, status |-> 404, code |-> "BUDGET_NOT_FOUND"]
  ELSE IF IncludesRateLimit(message)
  THEN [sent |-> TRUE, status |-> 429, code |-> "RATE_LIMIT"]
  ELSE [sent |-> TRUE, status |-> 500, code |-> "RECONCILIATION_ERROR"]

\* the calls of reconcile and reconcileAndPersist that reach the store or
\* the ledger client, in order
StoreRead == [target |-> "store", op |-> "getTransactionsByDateRange"]
LedgerFetch == [target |-> "ledger", op |-> "getTransactionsByDateRange"]
StoreMark == [target |-> "store", op |-> "batchMarkReconciled"]
StoreLog == [target |-> "store", op |-> "insertReconciliationLog"]

\* what the handler leaves when it answers without calling the service
routeAnswer(resp, rows, logs) ==
  [response |-> resp, calls |-> <<>>, result |-> NoResult, actions |-> NoActions,
   transactions |-> rows, reconciliationLogs |-> logs, config |-> <<>>]

\* the handler of POST /api/reconcile: its response, the calls it made, the
\* two tables as it leaves them and the config of the service it constructed
\* (none: the empty sequence).  accessToken is the value of
\* YNAB_ACCESS_TOKEN, fetchError the message of the error the ledger fetch
\* throws (none: the empty sequence)
postReconcile(body, persist, accessToken, fetchError, rows, budget, logs, now) ==
  IF \/ body.budgetId = <<>> \/ body.budgetId[1] = ""
     \/ body.accountId = <<>> \/ body.accountId[1] = ""
     \/ body.startDate = <<>> \/ body.startDate[1] = <<>>
     \/ body.endDate = <<>> \/ body.endDate[1] = <<>>
  THEN routeAnswer([sent |-> TRUE, status |-> 400, code |-> "MISSING_FIELDS"], rows, logs)
  ELSE IF ~dateRegexTest(body.startDate[1]) \/ ~dateRegexTest(body.endDate[1])
  THEN routeAnswer([sent |-> TRUE, status |-> 400, code |-> "INVALID_DATE_FORMAT"], rows, logs)
  ELSE IF dateRangeInvalid(body.startDate[1], body.endDate[1])
  THEN routeAnswer([sent |-> TRUE, status |-> 400, code |-> "INVALID_DATE_RANGE"], rows, logs)
  ELSE IF accessToken = ""
  THEN routeAnswer(routeCatch(TokenRequiredMessage), rows, logs)
  ELSE
    LET budgetId == body.budgetId[1]
        startDate == ParseDate(body.startDate[1])
        endDate == ParseDate(body.endDate[1])
        cfg == MergeConfig(
                 [dateTolerance |-> IF body.dateTolerance = <<>> \/ body.dateTolerance[1] = 0
                                    THEN 2 ELSE body.dateTolerance[1],
                  amountTolerance |-> IF body.amountTolerance = <<>> \/ body.amountTolerance[1] = 0
                                      THEN 100 ELSE body.amountTolerance[1]])
        res == IF fetchError = <<>>
               THEN reconcileResult(rows, budget, cfg, budgetId, startDate, endDate)
               ELSE reconcileFailure(budgetId, startDate, endDate, fetchError[1])
        out == persistStep(res, rows, cfg, logs, now, budgetId, startDate, endDate, persist)
    IN [response |-> [sent |-> TRUE, status |-> IF res.success THEN 200 ELSE 400,
                      success |-> res.success],
        calls |-> <<StoreRead, LedgerFetch>>
                    \o (IF out.actions.persistedCount # <<>> THEN <<StoreMark, StoreLog>>
                        ELSE <<>>),
        result |-> out.result,
        actions |-> out.actions,
        transactions |-> out.transactions,
        reconciliationLogs |-> out.reconciliationLogs,
        config |-> <<cfg>>]

\* the date strings of request bodies: one that is no ISO date, and the
\* strings of the request dates
BodyDateStrings ==
  {<<"2", "0", "2", "4", "/", "0", "1", "/", "3", "1">>}
    \cup {DateString(d) : d \in RequestDates}

\* request bodies: with both ids, every pair of date fields; with the dates
\* of one statement period, every pair of id fields
RouteBodies ==
  [budgetId : {<<b>> : b \in BudgetIds},
   accountId : {<<"acct-amex">>},
   startDate : {<<>>} \cup {<<s>> : s \in BodyDateStrings},
   endDate : {<<>>} \cup {<<s>> : s \in BodyDateStrings},
   dateTolerance : {<<1>>},
   amountTolerance : {<<>>}]
  \cup
  [budgetId : {<<>>} \cup {<<b>> : b \in BudgetIds},
   accountId : {<<>>, <<"acct-amex">>},
   startDate : {<<DateString(<<2024, 1, 31>>)>>},
   endDate : {<<DateString(<<2024, 2, 1>>)>>},
   dateTolerance : {<<1>>},
   amountTolerance : {<<>>}]

\* the environment of a request: the access token is not set, the ledger
\* fetch throws, or neither
RouteEnvironments ==
  {[accessToken |-> "", fetchError |-> <<>>],
   [accessToken |-> "token-1", fetchError |-> <<RateLimitMessage>>],
   [accessToken |-> "token-1", fetchError |-> <<>>]}

InitRoute ==
  /\ transactions = <<StoredRow(1, <<2024, 1, 31>>, 300000), StoredRow(2, <<2024, 1, 31>>, 300000)>>
  /\ ledger = <<LedgerEntry("ynab-1", <<2024, 1, 31>>), LedgerEntry("ynab-2", <<2024, 2, 1>>)>>
  /\ config \in ServiceConfigs
  /\ request = NoRequest
  /\ result = NoResult
  /\ cardTransactions = <<>>
  /\ ynabTransactions = <<>>
  /\ candidates = <<>>
  /\ candidatesFor = 0
  /\ report = NoReport
  /\ HandlersIdle
  /\ sqliteSequence = Len(transactions)
  /\ inFlight = NoneInFlight

\* a request POST /api/reconcile?persist=...
PostReconcile(body, persist, env) ==
  \E out \in {postReconcile(body, persist, env.accessToken, env.fetchError,
                             transactions, ledger, reconciliationLogs, clock + 1)} :
  LET wrote == out.transactions # transactions \/ out.reconciliationLogs # reconciliationLogs
  IN /\ wrote => clock < MaxClock
     /\ request' = [made |-> TRUE, budgetId |-> body.budgetId, accountId |-> body.accountId,
                    startDate |-> body.startDate, endDate |-> body.endDate,
                    dateTolerance |-> body.dateTolerance,
                    amountTolerance |-> body.amountTolerance,
                    persist |-> persist]
     /\ config' = IF out.config = <<>> THEN config ELSE out.config[1]
     /\ response' = out.response
     /\ calls' = out.calls
     /\ result' = out.result
     /\ actions' = out.actions
     /\ transactions' = out.transactions
     /\ reconciliationLogs' = out.reconciliationLogs
     /\ clock' = IF wrote THEN clock + 1 ELSE clock
     /\ outcome' = NoOutcome
     /\ UNCHANGED <<engineVars, sqliteSequence, inFlight, ledger>>

NextRoute ==
  \E body \in RouteBodies, persist \in BOOLEAN, env \in RouteEnvironments :
    PostReconcile(body, persist, env)

SpecRoute == InitRoute /\ [][NextRoute]_vars

\* request bodies that pass the three validations, with and without
\* tolerances (amounts in 1/10000 of a unit)
ToleranceBodies ==
  [budgetId : {<<b>> : b \in BudgetIds},
   accountId : {<<"acct-amex">>},
   startDate : {<<DateString(<<2024, 1, 31>>)>>},
   endDate : {<<DateString(d)>> : d \in RequestDates},
   dateTolerance : {<<>>, <<0>>, <<1>>},
   amountTolerance : {<<>>, <<0>>}]

\* requests served with the access token set and the ledger answering
NextTolerance ==
  \E body \in ToleranceBodies, persist \in BOOLEAN :
    PostReconcile(body, persist, [accessToken |-> "token-1", fetchError |-> <<>>])

SpecTolerance == InitRoute /\ [][NextTolerance]_vars

\* what the ledger client throws when the ledger service answers a fetch
\* with 401, 404 or 429 (handleError)
LedgerFailures == {UnauthorizedMessage, FetchNotFoundMessage, RateLimitMessage}

\* bodies with every required field valid
FailureBodies ==
  [budgetId : {<<b>> : b \in BudgetIds},
   accountId : {<<"acct-amex">>},
   startDate : {<<DateString(<<2024, 1, 31>>)>>},
   endDate : {<<DateString(d)>> : d \in RequestDates},
   dateTolerance : {<<>>},
   amountTolerance : {<<>>}]

\* requests served with the access token set; the ledger answers the fetch
\* or fails it
NextLedgerFailure ==
  \E body \in FailureBodies, persist \in BOOLEAN,
     fetchError \in {<<>>} \cup {<<m>> : m \in LedgerFailures} :
    PostReconcile(body, persist, [accessToken |-> "token-1", fetchError |-> fetchError])

SpecLedgerFailure == InitRoute /\ [][NextLedgerFailure]_vars

----------------------------------------------------------------------------
(* Statement import (services/importService.ts, db.ts, validator.ts).  Of a *)
(* statement transaction the model keeps the date, the amount and the       *)
(* reference; the other required fields are present and well-formed.        *)

UniqueMessage == "UNIQUE constraint failed: transactions.reference"
DuplicateSkippedMessage == "Duplicate reference skipped"
NoTransactionsMessage == "No transactions found in file"
ReferenceRequiredMessage == "Reference is required"

\* db.transactionExists
transactionExists(rows, reference) ==
  \E i \in 1..Len(rows) : rows[i].reference = reference

insertRowUnconstrained(rows, seq, txn) ==
  [rows |-> Append(rows, ReferencedRow(seq + 1, txn.date, txn.amount, txn.reference)),
   seq |-> seq + 1,
   thrown |-> <<>>]

\* the INSERT statement of insertTransaction and batchInsertTransactions: the
\* table and its sequence after it, and the message of the error it throws
\* (reference is UNIQUE)
insertRow(rows, seq, txn) ==
  IF transactionExists(rows, txn.reference)
  THEN [rows |-> rows, seq |-> seq, thrown |-> <<UniqueMessage>>]
  ELSE [rows |-> Append(rows, ReferencedRow(seq + 1, txn.date, txn.amount, txn.reference)),
        seq |-> seq + 1,
        thrown |-> <<>>]

\* db.batchInsertTransactions: the loop over txns from index i (0-based)
RECURSIVE batchInsertLoop(_, _, _, _, _, _)
batchInsertLoop(rows, seq, txns, i, inserted, errors) ==
  IF i >= Len(txns)
  THEN [rows |-> rows, seq |-> seq, inserted |-> inserted, errors |-> errors]
  ELSE LET txn == txns[i + 1]
           ins == insertRow(rows, seq, txn)
       IN IF ins.thrown = <<>>
          THEN batchInsertLoop(ins.rows, ins.seq, txns, i + 1, inserted + 1, errors)
          ELSE batchInsertLoop(rows, seq, txns, i + 1, inserted,
                 Append(errors, [index |-> i, reference |-> txn.reference,
                                 error |-> ins.thrown[1]]))

batchInsertTransactions(rows, seq, txns) == batchInsertLoop(rows, seq, txns, 0, 0, <<>>)

\* db.deleteTransaction: the table after the DELETE and the value returned
deleteTransaction(rows, id) ==
  [rows |-> SelectSeqBy(rows, {r \in Range(rows) : r.id # id}),
   returned |-> \E i \in 1..Len(rows) : rows[i].id = id]

\* validator.validateAmExTransaction, for the fields of the model
validateAmExTransaction(txn) ==
  IF txn.reference = <<>> THEN <<ReferenceRequiredMessage>> ELSE <<>>

\* validator.validateTransactionBatch: the 0-based indices of the
\* transactions with errors, in order, each with its errors
RECURSIVE validateFrom(_, _)
validateFrom(txns, index) ==
  IF index >= Len(txns) THEN <<>>
  ELSE (IF validateAmExTransaction(txns[index + 1]) # <<>>
        THEN <<[index |-> index, errors |-> validateAmExTransaction(txns[index + 1])]>>
        ELSE <<>>) \o validateFrom(txns, index + 1)

validateTransactionBatch(txns) == validateFrom(txns, 0)

\* validationErrors.flatMap(...): one ImportError per message
RECURSIVE validationImportErrors(_, _)
validationImportErrors(validationErrors, txns) ==
  IF validationErrors = <<>> THEN <<>>
  ELSE LET err == Head(validationErrors) IN
       [k \in 1..Len(err.errors) |->
          [rowNumber |-> err.index + 1, error |-> err.errors[k],
           reference |-> <<txns[err.index + 1].reference>>]]
         \o validationImportErrors(Tail(validationErrors), txns)

deduplicateNothing(rows, txns) ==
  [transactionsToInsert |-> txns, duplicateReferences |-> <<>>]

\* the deduplication loop: the transactions to insert and the references
\* found in the table, both in file order
RECURSIVE deduplicate(_, _)
deduplicate(rows, txns) ==
  IF txns = <<>> THEN [transactionsToInsert |-> <<>>, duplicateReferences |-> <<>>]
  ELSE LET rest == deduplicate(rows, Tail(txns)) IN
       IF transactionExists(rows, Head(txns).reference)
       THEN [rest EXCEPT !.duplicateReferences = <<Head(txns).reference>> \o @]
       ELSE [rest EXCEPT !.transactionsToInsert = <<Head(txns)>> \o @]

\* importAmExStatementSync after the file has been parsed without parse
\* errors into parsedTransactions: the ImportResult, and the table and its
\* sequence as the import leaves them.  The error of a skipped duplicate is
\* the text before the interpolated reference; an absent reference of an
\* ImportError is the empty sequence.
importAmExStatementSync(rows, seq, parsedTransactions, options) ==
  LET validationErrors ==
        IF options.skipValidation THEN <<>> ELSE validateTransactionBatch(parsedTransactions)
      invalidIndices == {validationErrors[k].index : k \in 1..Len(validationErrors)}
      validTransactions ==
        [k \in 1..Cardinality({i \in 1..Len(parsedTransactions) : (i - 1) \notin invalidIndices}) |->
           parsedTransactions[CHOOSE i \in 1..Len(parsedTransactions) :
              /\ (i - 1) \notin invalidIndices
              /\ Cardinality({j \in 1..i : (j - 1) \notin invalidIndices}) = k]]
      errors1 == validationImportErrors(validationErrors, parsedTransactions)
      dedup == IF options.skipDeduplication
               THEN [transactionsToInsert |-> validTransactions, duplicateReferences |-> <<>>]
               ELSE deduplicate(rows, validTransactions)
      errors2 == errors1 \o
                 [k \in 1..Len(dedup.duplicateReferences) |->
                    [rowNumber |-> 0, error |-> DuplicateSkippedMessage,
                     reference |-> <<dedup.duplicateReferences[k]>>]]
      inserting == dedup.transactionsToInsert # <<>> /\ ~options.dryRun
      insertResult == batchInsertTransactions(rows, seq, dedup.transactionsToInsert)
      errors3 == IF inserting
                 THEN errors2 \o
                      [k \in 1..Len(insertResult.errors) |->
                         [rowNumber |-> insertResult.errors[k].index + 1,
                          error |-> insertResult.errors[k].error,
                          reference |-> <<insertResult.errors[k].reference>>]]
                 ELSE errors2
      importedRecords == IF inserting THEN insertResult.inserted
                         ELSE IF options.dryRun THEN Len(dedup.transactionsToInsert)
                         ELSE 0
      skippedRecords == Len(dedup.duplicateReferences)
                          + (IF inserting THEN Len(insertResult.errors) ELSE 0)
  IN IF parsedTransactions = <<>>
     THEN [rows |-> rows, seq |-> seq,
           result |-> [success |-> FALSE, totalRecords |-> 0, importedRecords |-> 0,
                       skippedRecords |-> 0,
                       errors |-> <<[rowNumber |-> 0, error |-> NoTransactionsMessage,
                                     reference |-> <<>>]>>]]
     ELSE IF validationErrors # <<>> /\ validTransactions = <<>>
     THEN [rows |-> rows, seq |-> seq,
           result |-> [success |-> FALSE, totalRecords |-> Len(parsedTransactions),
                       importedRecords |-> 0, skippedRecords |-> 0, errors |-> errors1]]
     ELSE [rows |-> IF inserting THEN insertResult.rows ELSE rows,
           seq |-> IF inserting THEN insertResult.seq ELSE seq,
           result |-> [success |-> importedRecords > 0 \/ errors3 = <<>>,
                       totalRecords |-> Len(parsedTransactions),
                       importedRecords |-> importedRecords,
                       skippedRecords |-> skippedRecords,
                       errors |-> errors3]]

StatementRecord(reference) ==
  [date |-> <<2024, 1, 31>>, amount |-> 300000, reference |-> reference]

\* parsed statement files: empty, of one record, of two records with
\* different references, repeating a reference, and with a record that has
\* no reference
ImportFiles ==
  {<<>>,
   <<StatementRecord(ReferenceA)>>,
   <<StatementRecord(ReferenceC)>>,
   <<StatementRecord(ReferenceA), StatementRecord(ReferenceC)>>,
   <<StatementRecord(ReferenceA), StatementRecord(ReferenceA)>>,
   <<StatementRecord(<<>>)>>,
   <<StatementRecord(ReferenceA), StatementRecord(<<>>)>>}

\* ImportServiceOptions: the defaults, and each option set alone
ImportOptions ==
  {[skipValidation |-> v, skipDeduplication |-> d, dryRun |-> r] :
     <<v, d, r>> \in {<<FALSE, FALSE, FALSE>>, <<TRUE, FALSE, FALSE>>,
                      <<FALSE, TRUE, FALSE>>, <<FALSE, FALSE, TRUE>>}}

InitImport ==
  /\ transactions = <<>>
  /\ ledger = <<>>
  /\ config \in ServiceConfigs
  /\ request = NoRequest
  /\ result = NoResult
  /\ cardTransactions = <<>>
  /\ ynabTransactions = <<>>
  /\ candidates = <<>>
  /\ candidatesFor = 0
  /\ report = NoReport
  /\ HandlersIdle
  /\ sqliteSequence = Len(transactions)
  /\ inFlight = NoneInFlight

\* importAmExStatementSync of a file
ImportStatement(file, options) ==
  \E out \in {importAmExStatementSync(transactions, sqliteSequence, file, options)} :
    /\ out.seq <= MaxSequence
    /\ transactions' = out.rows
    /\ sqliteSequence' = out.seq
    /\ outcome' = [op |-> "importAmExStatement", file |-> file, options |-> options,
                   result |-> out.result]
    /\ UNCHANGED <<engineVars, config, ledger, request, result, clock, reconciliationLogs,
                   actions, calls, response, inFlight>>

\* db.insertTransaction of one statement transaction
InsertSingle(txn) ==
  \E out \in {insertRow(transactions, sqliteSequence, txn)} :
    /\ out.seq <= MaxSequence
    /\ transactions' = out.rows
    /\ sqliteSequence' = out.seq
    /\ outcome' = [op |-> "insertTransaction", reference |-> txn.reference,
                   thrown |-> out.thrown]
    /\ UNCHANGED <<engineVars, config, ledger, request, result, clock, reconciliationLogs,
                   actions, calls, response, inFlight>>

\* db.deleteTransaction
DeleteTransaction(id) ==
  \E out \in {deleteTransaction(transactions, id)} :
    /\ transactions' = out.rows
    /\ outcome' = [op |-> "deleteTransaction", id |-> id, deleted |-> out.returned]
    /\ UNCHANGED <<engineVars, sqliteSequence, inFlight, config, ledger, request, result, clock,
                   reconciliationLogs, actions, calls, response>>

NextImport ==
  \/ \E file \in ImportFiles, options \in ImportOptions : ImportStatement(file, options)
  \/ \E reference \in {ReferenceA, ReferenceC} : InsertSingle(StatementRecord(reference))
  \/ \E id \in 1..MaxSequence : DeleteTransaction(id)

SpecImport == InitImport /\ [][NextImport]_vars

----------------------------------------------------------------------------
(* Properties of the matching engine (checked under SpecMatch) *)

\* number of positions of a sequence whose element satisfies a membership test
Count(s, S) == Cardinality({k \in 1..Len(s) : s[k] \in S})

\* C1: no statement transaction and no ledger transaction appears in more
\* than one entry of the matched list returned by matchTransactions.
OneToOneConsumption ==
  report.returned =>
    \A j, k \in 1..Len(report.matched) :
      j # k =>
        /\ report.matched[j].cardTransaction.id # report.matched[k].cardTransaction.id
        /\ report.matched[j].ynabTransaction.id # report.matched[k].ynabTransaction.id

\* C2: every ledger transaction given to matchTransactions is in exactly one
\* match or in unexpectedInYnab, never both and never neither, so
\* |matched| + |unexpectedInYnab| = |ledger input list|.
LedgerPartition ==
  report.returned =>
    /\ Len(report.matched) + Len(report.unexpectedInYnab) = Len(ynabTransactions)
    /\ \A i \in 1..Len(ynabTransactions) :
         LET y == ynabTransactions[i]
             inMatched == Cardinality({k \in 1..Len(report.matched) :
                                        report.matched[k].ynabTransaction = y})
             inUnexpected == Count(report.unexpectedInYnab, {y})
         IN inMatched + inUnexpected = 1

\* C3: every statement transaction given to matchTransactions is the card
\* side of exactly one match or is in missingInYnab, never both and never
\* neither, so |matched| + |missingInYnab| = |statement input list|.
StatementPartition ==
  report.returned =>
    /\ Len(report.matched) + Len(report.missingInYnab) = Len(cardTransactions)
    /\ \A i \in 1..Len(cardTransactions) :
         LET c == cardTransactions[i]
             inMatched == Cardinality({k \in 1..Len(report.matched) :
                                        report.matched[k].cardTransaction = c})
             inMissing == Count(report.missingInYnab, {c})
         IN inMatched + inMissing = 1

\* C3 witness: two statement transactions equal in date and amount, of which
\* at least one was matched
StatementPartitionWitness ==
  /\ report.returned
  /\ Len(cardTransactions) = 2
  /\ cardTransactions[1].date = cardTransactions[2].date
  /\ cardTransactions[1].amount = cardTransactions[2].amount
  /\ Len(report.matched) >= 1

CandidateIds == {candidates[k].ynabTransaction.id : k \in 1..Len(candidates)}

\* the statement transaction of the last findMatchingYnabTransactions call
CandidateCard == cardTransactions[candidatesFor]

WithinDateTolerance(c, y) ==
  Abs(DayNumber(y.date) - DayNumber(c.date)) <= config.dateTolerance

\* difference of the magnitudes of a statement amount and a ledger amount,
\* both expressed in 1/10000 of a currency unit
MagnitudeDiff(c, y) == Abs(Abs(c.amount) - Abs(10 * y.amount))

\* C4: a ledger transaction of amount -a*1000 milliunits (opposite sign) or
\* a*1000 milliunits (same sign), dated within tolerance of a statement
\* transaction of amount a, is a candidate of findMatchingYnabTransactions.
SignSymmetry ==
  candidatesFor # 0 =>
    \A i \in 1..Len(ynabTransactions) :
      LET y == ynabTransactions[i] IN
      (/\ WithinDateTolerance(CandidateCard, y)
       /\ \/ 10 * y.amount = -CandidateCard.amount
          \/ 10 * y.amount = CandidateCard.amount)
      => y.id \in CandidateIds

\* C5: a pair within date tolerance is a candidate if and only if the
\* difference of the magnitudes of the two amounts is at most amountTolerance.
AmountBoundary ==
  candidatesFor # 0 =>
    \A i \in 1..Len(ynabTransactions) :
      LET y == ynabTransactions[i] IN
      WithinDateTolerance(CandidateCard, y) =>
        (y.id \in CandidateIds <=> MagnitudeDiff(CandidateCard, y) <= config.amountTolerance)

CandidatePositions(c) ==
  LET cands == findMatchingYnabTransactions(c, ynabTransactions, config)
      ids == {cands[k].ynabTransaction.id : k \in 1..Len(cands)}
  IN {i \in 1..Len(ynabTransactions) : ynabTransactions[i].id \in ids}

DayDistance(c, i) == Abs(DayNumber(ynabTransactions[i].date) - DayNumber(c.date))

ClosestPositions(c) ==
  LET P == CandidatePositions(c) IN
  {i \in P : \A j \in P : DayDistance(c, i) <= DayDistance(c, j)}

Min(S) == CHOOSE x \in S : \A y \in S : x <= y
Max(S) == CHOOSE x \in S : \A y \in S : x >= y

\* C7 as stated: a matched statement transaction is paired with the candidate
\* of minimum absolute date difference that comes first in the ledger list.
BestIsFirstClosest ==
  report.returned =>
    \A k \in 1..Len(report.matched) :
      LET m == report.matched[k] IN
      m.ynabTransaction = ynabTransactions[Min(ClosestPositions(m.cardTransaction))]

\* C7 amended: a matched statement transaction is paired with a candidate of
\* minimum absolute date difference, and among several such candidates with
\* the one that comes last in the ledger input list.
BestIsLastClosest ==
  report.returned =>
    \A k \in 1..Len(report.matched) :
      LET m == report.matched[k] IN
      m.ynabTransaction = ynabTransactions[Max(ClosestPositions(m.cardTransaction))]

\* C7 witness: a statement transaction with two candidates on different dates
\* at the same minimum distance, paired with the later one of the list
BestIsLastClosestWitness ==
  /\ report.returned
  /\ Len(report.matched) >= 1
  /\ Cardinality(ClosestPositions(report.matched[1].cardTransaction)) = 2
  /\ ynabTransactions[1].date # ynabTransactions[2].date
  /\ report.matched[1].ynabTransaction = ynabTransactions[2]

----------------------------------------------------------------------------
(* Properties of reconcile (checked under SpecReconcile) *)

Succeeded == result.returned /\ result.success

InRequestedRange(date) ==
  DateLeq(request.startDate, date) /\ DateLeq(date, request.endDate)

\* the ledger transactions a run reports, as matched or as unexpected
ReportedYnabIds ==
  {result.discrepancies.matched[k].ynabTransaction.id :
     k \in 1..Len(result.discrepancies.matched)}
  \cup {result.discrepancies.unexpectedInYnab[k].id :
          k \in 1..Len(result.discrepancies.unexpectedInYnab)}

\* C8: a ledger transaction of another account than the requested one never
\* appears in matched nor in unexpectedInYnab.
AccountIsolation ==
  Succeeded =>
    \A i \in 1..Len(ledger) :
      ledger[i].account_id # request.accountId => ledger[i].id \notin ReportedYnabIds

\* a ledger transaction of the requested account that is live and passes the
\* service's own candidate test for a stored statement transaction
IsCounterpart(row, txn) ==
  /\ txn.account_id = request.accountId
  /\ ~txn.deleted
  /\ isCandidate(row, toYnabTransaction(txn), config)

\* C9: a statement transaction dated inside [startDate, endDate] whose only
\* ledger counterpart is dated outside the range but within dateTolerance
\* days of it is reported in matched, not in missingInYnab.
ExpandedWindow ==
  Succeeded =>
    \A r \in 1..Len(transactions), i \in 1..Len(ledger) :
      (/\ InRequestedRange(transactions[r].date)
       /\ ~InRequestedRange(ledger[i].date)
       /\ IsCounterpart(transactions[r], ledger[i])
       /\ \A j \in 1..Len(ledger) :
            j # i => ~isCandidate(transactions[r], toYnabTransaction(ledger[j]), config)
       /\ \A q \in 1..Len(transactions) :
            q # r => ~isCandidate(transactions[q], toYnabTransaction(ledger[i]), config))
      =>
      /\ \E k \in 1..Len(result.discrepancies.matched) :
           /\ result.discrepancies.matched[k].cardTransaction = transactions[r]
           /\ result.discrepancies.matched[k].ynabTransaction.id = ledger[i].id
      /\ transactions[r] \notin Range(result.discrepancies.missingInYnab)

\* C10: every ledger transaction reported in unexpectedInYnab is dated
\* inside the requested [startDate, endDate].
UnexpectedInsideRange ==
  Succeeded =>
    \A k \in 1..Len(result.discrepancies.unexpectedInYnab) :
      InRequestedRange(result.discrepancies.unexpectedInYnab[k].date)

\* C10 witness: a run that reports an unexpected ledger transaction while the
\* budget also holds live transactions before and after the requested range
UnexpectedInsideRangeWitness ==
  /\ Succeeded
  /\ Len(result.discrepancies.unexpectedInYnab) >= 1
  /\ \E i \in 1..Len(ledger) :
       /\ ~ledger[i].deleted
       /\ ~DateLeq(ledger[i].date, request.endDate)
       /\ ledger[i].id \notin ReportedYnabIds

\* C16: a reconcile run always returns a result; a failed one has success
\* false, a non-empty error description, the three counts 0 and the three
\* partitions empty, and a successful one carries no error.
FailureIsReturned ==
  result.returned =>
    /\ ~result.success =>
         /\ Len(result.error) = 1
         /\ result.error[1] # ""
         /\ result.cardTransactionCount = 0
         /\ result.ynabTransactionCount = 0
         /\ result.matchedCount = 0
         /\ result.discrepancies.matched = <<>>
         /\ result.discrepancies.missingInYnab = <<>>
         /\ result.discrepancies.unexpectedInYnab = <<>>
    /\ result.success => result.error = <<>>

\* C16 witness: a run failed although the store and the budget both hold a
\* transaction dated inside the requested range
FailureIsReturnedWitness ==
  /\ result.returned
  /\ ~result.success
  /\ \E r \in 1..Len(transactions) : InRequestedRange(transactions[r].date)
  /\ \E i \in 1..Len(ledger) : InRequestedRange(ledger[i].date) /\ ~ledger[i].deleted

----------------------------------------------------------------------------
(* Properties of the reconciliation markers (checked under SpecPersist) *)

UnexpectedIds ==
  {result.discrepancies.unexpectedInYnab[k].id :
     k \in 1..Len(result.discrepancies.unexpectedInYnab)}

\* C11: a reconcile run never reports in unexpectedInYnab a ledger
\* transaction whose id is recorded on a statement transaction that is marked
\* reconciled, whether or not the run's date range contains that statement
\* transaction.
ReconciledNeverUnexpected ==
  Succeeded =>
    \A r \in 1..Len(transactions) :
      transactions[r].reconciled =>
        \A id \in UnexpectedIds : transactions[r].ynab_transaction_id # <<id>>


\* the stored row of an id is marked reconciled
IsReconciled(rows, cardId) ==
  \E i \in 1..Len(rows) : rows[i].id = cardId /\ rows[i].reconciled

\* C14: unreconcileTransaction returns true only if the row it names was
\* marked reconciled before the call; called for a stored row that is not
\* marked it returns false and leaves the table as it was.
UnmatchReportsClearing ==
  [][outcome'.op = "unreconcileTransaction" =>
       /\ outcome'.unmatched => IsReconciled(transactions, outcome'.cardTransactionId)
       /\ ~IsReconciled(transactions, outcome'.cardTransactionId) =>
            transactions' = transactions]_vars


\* C15: a statement transaction that is marked reconciled keeps its ledger id
\* and its reconciled-at time for as long as it stays marked: its marker
\* changes only from unreconciled to matched and from matched to
\* unreconciled.
MarkerKeptUntilUnmatched ==
  [][\A r \in 1..Len(transactions) :
       (transactions[r].reconciled /\ transactions'[r].reconciled) =>
         /\ transactions'[r].ynab_transaction_id = transactions[r].ynab_transaction_id
         /\ transactions'[r].reconciled_at = transactions[r].reconciled_at]_vars


\* statement ids on the card side of the matched list of the last run
MatchedCardIds ==
  {result.discrepancies.matched[k].cardTransaction.id :
     k \in 1..Len(result.discrepancies.matched)}

\* C17: a reconcileAndPersist call with persist = true that found a match
\* leaves every statement transaction of the returned matched list marked
\* reconciled with the id of the ledger transaction paired with it, returns
\* the number of those rows as persistedCount, and appends exactly one log
\* entry whose counts are the sizes of the three returned partitions.
PersistedAsReported ==
  [][(actions'.returned /\ request'.persist /\ result'.matchedCount > 0) =>
       /\ \A k \in 1..Len(result'.discrepancies.matched) :
            LET m == result'.discrepancies.matched[k] IN
            \E r \in 1..Len(transactions') :
              /\ transactions'[r].id = m.cardTransaction.id
              /\ transactions'[r].reconciled
              /\ transactions'[r].ynab_transaction_id = <<m.ynabTransaction.id>>
       /\ actions'.persistedCount =
            <<Cardinality({r \in 1..Len(transactions') :
                 /\ transactions'[r].reconciled
                 /\ \E k \in 1..Len(result'.discrepancies.matched) :
                      transactions'[r].id = result'.discrepancies.matched[k].cardTransaction.id})>>
       /\ Len(reconciliationLogs') = Len(reconciliationLogs) + 1
       /\ SubSeq(reconciliationLogs', 1, Len(reconciliationLogs)) = reconciliationLogs
       /\ LET log == reconciliationLogs'[Len(reconciliationLogs')] IN
          /\ log.matched_count = Len(result'.discrepancies.matched)
          /\ log.missing_in_ynab_count = Len(result'.discrepancies.missingInYnab)
          /\ log.unexpected_in_ynab_count = Len(result'.discrepancies.unexpectedInYnab)]_vars

\* C17 witness: a persisting run has matched two statement transactions, of
\* which one was marked with another ledger id before, and reported one
\* unexpected ledger transaction
PersistedAsReportedWitness ==
  /\ actions.returned
  /\ request.persist
  /\ actions.persistedCount = <<2>>
  /\ Len(result.discrepancies.unexpectedInYnab) = 1
  /\ \E k \in 1..Len(result.discrepancies.matched) :
       LET m == result.discrepancies.matched[k] IN
       /\ m.cardTransaction.reconciled
       /\ m.cardTransaction.ynab_transaction_id # <<m.ynabTransaction.id>>

----------------------------------------------------------------------------
(* Properties of createMissingInYnab (checked under SpecCreate) *)

\* number of transactions of a budget created for the statement transaction
\* of a reference (createMissingInYnab writes the reference into the memo)
CreatedFor(budget, reference) ==
  Cardinality({i \in 1..Len(budget) : budget[i].memo = reference})

\* number of requests of one createMissingInYnab call that were counted in
\* created for a statement id
CountedCreated(requests, cardId) ==
  Cardinality({k \in 1..Len(requests) :
                 requests[k].cardId = cardId /\ requests[k].thrown = <<>>})

\* C12: over any number of createMissingInYnab calls the budget holds at most
\* one transaction created for a statement id, and a call counts the id in
\* created at most once and only if the budget held none for it before.
CreatedAtMostOnce ==
  [][\A r \in 1..Len(transactions) :
       /\ CreatedFor(ledger', transactions[r].reference) <= 1
       /\ CreatedFor(ledger, transactions[r].reference)
            + CountedCreated(calls', transactions[r].id) <= 1]_vars

\* C12 witness: one call naming a statement id twice has created it once and
\* skipped it once
CreatedAtMostOnceWitness ==
  /\ outcome.op = "createMissingInYnab"
  /\ outcome.ids = <<1, 1>>
  /\ outcome.returned.created = 1
  /\ outcome.returned.skipped = 1
  /\ CreatedFor(ledger, transactions[1].reference) = 1


\* positions of a list at which a value stands
PositionsOf(s, x) == {k \in 1..Len(s) : s[k] = x}

StoredIds == {transactions[r].id : r \in 1..Len(transactions)}

\* requests of the last call that ended with a duplicate signal, and those
\* that failed otherwise
DuplicateSignals == {k \in 1..Len(calls) : calls[k].thrown = <<DuplicateMessage>>}
OtherFailures == {k \in 1..Len(calls) : calls[k].thrown \notin {<<>>, <<DuplicateMessage>>}}

\* C18: createMissingInYnab makes one request for every listed id that names
\* a stored row, whatever happened to the ids before it, and counts every
\* listed id exactly once: created + skipped + |errors| = number of ids, a
\* duplicate signal counts in skipped and not in errors, every other failure
\* yields one error carrying the id, and success holds iff errors is empty.
EveryIdCountedOnce ==
  outcome.op = "createMissingInYnab" =>
    LET ret == outcome.returned IN
    /\ ret.created + ret.skipped + Len(ret.errors) = Len(outcome.ids)
    /\ [k \in 1..Len(calls) |-> calls[k].cardId]
         = SelectSeqBy(outcome.ids, StoredIds)
    /\ ret.created = Cardinality({k \in 1..Len(calls) : calls[k].thrown = <<>>})
    /\ ret.skipped = Cardinality(DuplicateSignals)
    /\ \A id \in Range(outcome.ids) :
         Cardinality({e \in 1..Len(ret.errors) : ret.errors[e].cardId = id})
           = IF id \in StoredIds
             THEN Cardinality({k \in OtherFailures : calls[k].cardId = id})
             ELSE Cardinality(PositionsOf(outcome.ids, id))
    /\ \A e \in 1..Len(ret.errors) : ret.errors[e].cardId \in Range(outcome.ids)
    /\ ret.success <=> ret.errors = <<>>

\* C18 witness: the request for the first id was refused, and the second id
\* was still submitted and counted as a duplicate
EveryIdCountedOnceWitness ==
  /\ outcome.op = "createMissingInYnab"
  /\ Len(outcome.ids) = 2
  /\ Len(calls) = 2
  /\ calls[1].thrown = <<RateLimitMessage>>
  /\ outcome.returned.errors = <<[cardId |-> outcome.ids[1], error |-> RateLimitMessage]>>
  /\ outcome.returned.skipped = 1
  /\ ~outcome.returned.success


----------------------------------------------------------------------------
(* Properties of flagUnexpectedInYnab (checked under SpecFlag) *)

\* the requests of the last call that threw, in the order they were made
RECURSIVE FailedCalls(_)
FailedCalls(requests) ==
  IF requests = <<>> THEN <<>>
  ELSE (IF Head(requests).thrown # <<>>
        THEN <<[id |-> Head(requests).id, error |-> Head(requests).thrown[1]]>>
        ELSE <<>>) \o FailedCalls(Tail(requests))

\* C19: flagUnexpectedInYnab calls the flag operation of the ledger client
\* once per listed id, in list order, also after a call has failed;
\* flagged + |errors| = number of ids, the errors carry the ids whose call
\* failed, and success holds iff errors is empty.
EveryIdFlaggedOnce ==
  outcome.op = "flagUnexpectedInYnab" =>
    LET ret == outcome.returned IN
    /\ [k \in 1..Len(calls) |-> calls[k].id] = outcome.ids
    /\ \A k \in 1..Len(calls) : calls[k].op = "updateTransactionFlag"
    /\ ret.flagged + Len(ret.errors) = Len(outcome.ids)
    /\ ret.flagged = Cardinality({k \in 1..Len(calls) : calls[k].thrown = <<>>})
    /\ ret.errors = FailedCalls(calls)
    /\ ret.success <=> ret.errors = <<>>

\* C19 witness: the call for the first id failed, and the second id was
\* still flagged
EveryIdFlaggedOnceWitness ==
  /\ outcome.op = "flagUnexpectedInYnab"
  /\ Len(outcome.ids) = 2
  /\ outcome.returned.flagged = 1
  /\ Len(outcome.returned.errors) = 1
  /\ outcome.returned.errors[1].id = outcome.ids[1]
  /\ outcome.ids[1] # outcome.ids[2]
  /\ \E i \in 1..Len(ledger) :
       ledger[i].id = outcome.ids[2] /\ ledger[i].flag_color = <<"orange">>

----------------------------------------------------------------------------
(* Properties of generateImportId (checked under SpecImportId) *)

\* C13: two calls of generateImportId return the same key if and only if
\* they are given the same amount, date and reference.
ImportIdDistinguishesInputs ==
  outcome.op = "generateImportId" =>
    (outcome.keys[1] = outcome.keys[2] <=> outcome.first = outcome.second)

----------------------------------------------------------------------------
(* Properties of POST /api/reconcile (checked under SpecRoute) *)

ValidationCodes == {"MISSING_FIELDS", "INVALID_DATE_FORMAT", "INVALID_DATE_RANGE"}

\* the field holds a string of the form YYYY-MM-DD
HoldsIsoDate(field) == \E d \in RequestDates : field = <<DateString(d)>>

\* both fields hold dates, and the first is the later one
HoldsLaterDate(first, second) ==
  \E d1 \in RequestDates, d2 \in RequestDates :
    /\ first = <<DateString(d1)>>
    /\ second = <<DateString(d2)>>
    /\ ~DateLeq(d1, d2)

OmitsRequired(req) ==
  \/ req.budgetId = <<>>
  \/ req.accountId = <<>>
  \/ req.startDate = <<>>
  \/ req.endDate = <<>>

MustBeRejected(req) ==
  \/ OmitsRequired(req)
  \/ ~HoldsIsoDate(req.startDate)
  \/ ~HoldsIsoDate(req.endDate)
  \/ HoldsLaterDate(req.startDate, req.endDate)

\* C20: a POST /api/reconcile request that omits budgetId, accountId,
\* startDate or endDate, that has a date not of the form YYYY-MM-DD, or whose
\* startDate is later than its endDate is answered with status 400 and one
\* of the validation codes, and the handler makes no ledger client call, no
\* store read and no store write for it: its list of calls is empty and the
\* two tables and the remote budget are as they were.
RejectedBeforeAnyCall ==
  [][(request'.made /\ MustBeRejected(request'))
       => /\ response'.sent
          /\ response'.status = 400
          /\ "code" \in DOMAIN response'
          /\ response'.code \in ValidationCodes
          /\ calls' = <<>>
          /\ transactions' = transactions
          /\ reconciliationLogs' = reconciliationLogs
          /\ ledger' = ledger]_vars

\* a persisting request whose startDate is the day after its endDate was
\* rejected while the store held an unreconciled row dated its endDate
RejectedBeforeAnyCallWitness ==
  /\ request.made
  /\ request.persist
  /\ ~OmitsRequired(request)
  /\ HoldsLaterDate(request.startDate, request.endDate)
  /\ response = [sent |-> TRUE, status |-> 400, code |-> "INVALID_DATE_RANGE"]
  /\ calls = <<>>
  /\ \E i \in 1..Len(transactions) :
       /\ ~transactions[i].reconciled
       /\ request.endDate = <<DateString(transactions[i].date)>>

----------------------------------------------------------------------------
(* Properties of the tolerances of POST /api/reconcile (checked under      *)
(* SpecTolerance)                                                           *)

\* C21: the config that a POST /api/reconcile run matches with has the
\* request's dateTolerance and amountTolerance whenever the body supplies
\* them, 0 included, and otherwise a date tolerance of 7 days and an amount
\* tolerance of 0.01 (100 in 1/10000 of a unit); nothing is persisted unless
\* persist was requested.
RequestToleranceIsUsed ==
  (request.made /\ result.returned)
    => /\ config.dateTolerance =
            (IF request.dateTolerance = <<>> THEN 7 ELSE request.dateTolerance[1])
       /\ config.amountTolerance =
            (IF request.amountTolerance = <<>> THEN 100 ELSE request.amountTolerance[1])
       /\ (~request.persist => actions.persistedCount = <<>>)

----------------------------------------------------------------------------
(* Properties of repeated runs (checked under SpecPersist) *)

SameArguments(first, second) ==
  /\ first.budgetId = second.budgetId
  /\ first.startDate = second.startDate
  /\ first.endDate = second.endDate

SamePartitions(first, second) ==
  /\ Range(first.matched) = Range(second.matched)
  /\ Range(first.missingInYnab) = Range(second.missingInYnab)
  /\ Range(first.unexpectedInYnab) = Range(second.unexpectedInYnab)

----------------------------------------------------------------------------
(* Properties of the statement import (checked under SpecImport) *)

ReferencesUnique(rows) ==
  \A i \in 1..Len(rows), j \in 1..Len(rows) :
    i # j => rows[i].reference # rows[j].reference

\* C23: after every import (with or without skipDeduplication, of files that
\* repeat a reference too), single insert and delete, no two stored statement
\* transactions have the same reference, and a statement transaction that is
\* stored before and after the step has the id it had.
ReferencesUniqueIdsStable ==
  [][/\ ReferencesUnique(transactions')
     /\ \A i \in 1..Len(transactions), j \in 1..Len(transactions') :
          transactions[i].reference = transactions'[j].reference
            => transactions[i].id = transactions'[j].id]_vars

\* an import with skipDeduplication of a file that has one reference twice
\* has stored one row for it, after an earlier row had been deleted
ReferencesUniqueIdsStableWitness ==
  /\ outcome.op = "importAmExStatement"
  /\ outcome.options.skipDeduplication
  /\ outcome.file = <<StatementRecord(ReferenceA), StatementRecord(ReferenceA)>>
  /\ outcome.result.importedRecords = 1
  /\ \E k \in 1..Len(outcome.result.errors) : outcome.result.errors[k].error = UniqueMessage
  /\ Len(transactions) < sqliteSequence
  /\ \E i \in 1..Len(transactions) :
       transactions[i].reference = ReferenceA /\ transactions[i].id = sqliteSequence

AllStored(file, rows) ==
  \A k \in 1..Len(file) : transactionExists(rows, file[k].reference)

AllValid(file) ==
  \A k \in 1..Len(file) : file[k].reference # <<>>

\* the entries of errors that report a skipped duplicate of this reference
DuplicateEntries(errors, reference) ==
  {k \in 1..Len(errors) :
     errors[k].error = DuplicateSkippedMessage /\ errors[k].reference = <<reference>>}

ReimportSkipsAll(file, res) ==
  /\ res.importedRecords = 0
  /\ transactions' = transactions
  /\ res.skippedRecords = Len(file)
  /\ \A k \in 1..Len(file) :
       Cardinality(DuplicateEntries(res.errors, file[k].reference))
         = Cardinality({j \in 1..Len(file) : file[j].reference = file[k].reference})

\* C24 as stated: an import, whatever its options, of a file whose every
\* reference is already stored inserts nothing, leaves the table as it was,
\* reports skippedRecords equal to the number of records of the file and one
\* 'Duplicate reference skipped' entry per record.
ReimportSkipsAllAnyOptions ==
  [][(outcome'.op = "importAmExStatement" /\ AllStored(outcome'.file, transactions))
       => ReimportSkipsAll(outcome'.file, outcome'.result)]_vars

\* C24: an import that does not skip deduplication, of a file whose records
\* all pass validation and whose every reference is already stored, inserts
\* nothing, leaves the table as it was, reports skippedRecords equal to the
\* number of records of the file and one 'Duplicate reference skipped' entry
\* per record.
ReimportSkipsAllDeduplicating ==
  [][(/\ outcome'.op = "importAmExStatement"
      /\ ~outcome'.options.skipDeduplication
      /\ AllValid(outcome'.file)
      /\ AllStored(outcome'.file, transactions))
       => ReimportSkipsAll(outcome'.file, outcome'.result)]_vars

\* a file of two records was imported with the default options while both
\* of its references were stored
ReimportSkipsAllDeduplicatingWitness ==
  /\ outcome.op = "importAmExStatement"
  /\ outcome.options = [skipValidation |-> FALSE, skipDeduplication |-> FALSE, dryRun |-> FALSE]
  /\ outcome.file = <<StatementRecord(ReferenceA), StatementRecord(ReferenceC)>>
  /\ outcome.result.importedRecords = 0
  /\ outcome.result.skippedRecords = 2
  /\ Len(transactions) = 2

----------------------------------------------------------------------------
(* Properties of the reconciliation markers (checked under SpecPersist) *)

\* C25: in every reachable state of the store, after any runs of
\* reconcileAndPersist, POST /persist requests and unmatch requests, no ledger
\* transaction id is recorded on two statement transactions that are marked
\* reconciled.
LedgerIdRecordedOnce ==
  \A i \in 1..Len(transactions), j \in 1..Len(transactions) :
    (/\ i # j
     /\ transactions[i].reconciled
     /\ transactions[j].reconciled)
      => transactions[i].ynab_transaction_id # transactions[j].ynab_transaction_id

----------------------------------------------------------------------------
(* Properties of concurrent runs (checked under SpecConcurrent) *)

Unmarked(row) ==
  ~row.reconciled /\ row.ynab_transaction_id = <<>> /\ row.reconciled_at = <<>>

Marked(row) ==
  row.reconciled /\ Len(row.ynab_transaction_id) = 1 /\ Len(row.reconciled_at) = 1

\* the step has updated the row with this pair at its time of writing
WrittenByThisStep(row) ==
  /\ result'.returned
  /\ row.reconciled_at = <<clock'>>
  /\ clock' = clock + 1
  /\ \E k \in 1..Len(result'.discrepancies.matched) :
       /\ result'.discrepancies.matched[k].cardTransaction.id = row.id
       /\ <<result'.discrepancies.matched[k].ynabTransaction.id>> = row.ynab_transaction_id

\* C26: in every interleaving of two concurrent persisting runs on
\* overlapping ranges with unmatch requests, every statement transaction is
\* after every step either unmarked (reconciled = 0, no ledger id, no
\* reconciled-at time) or marked (reconciled = 1 with a ledger id and a
\* time), and a row that a step has left marked otherwise than it was
\* carries the ledger id and the time of one row update of that step.
MarkersWhole ==
  [][\A i \in 1..Len(transactions') :
       /\ Unmarked(transactions'[i]) \/ Marked(transactions'[i])
       /\ (transactions'[i] # transactions[i] /\ ~Unmarked(transactions'[i]))
            => WrittenByThisStep(transactions'[i])]_vars

\* the two rows carry markers written by two different runs while the other
\* call, which read the store before either wrote, is still suspended
MarkersWholeWitness ==
  /\ transactions[1].reconciled /\ transactions[1].reconciled_at = <<2>>
  /\ transactions[2].reconciled /\ transactions[2].reconciled_at = <<1>>
  /\ \E run \in Runs :
       /\ inFlight[run].pc = "persisting"
       /\ inFlight[run].res.success
       /\ \E k \in 1..Len(inFlight[run].res.discrepancies.matched) :
            ~inFlight[run].res.discrepancies.matched[k].cardTransaction.reconciled

----------------------------------------------------------------------------
(* Properties of batchMarkReconciled (checked under SpecBatch) *)

IsStored(rows, cardId) == \E i \in 1..Len(rows) : rows[i].id = cardId

\* the ledger id of the last pair of the list that names the row
LastLedgerIdFor(matches, cardId) ==
  LET naming == {k \in 1..Len(matches) : matches[k].cardId = cardId}
  IN matches[CHOOSE k \in naming : \A j \in naming : j <= k].ynabId

\* C27: batchMarkReconciled counts every pair of its input once, updated +
\* |errors| = number of pairs; the errors are, in order, one 'Transaction not
\* found' entry with the id for every pair whose statement id is not stored;
\* a row that no pair names stays as it was, and every row that a pair names
\* is marked reconciled with the ledger id of a pair naming it, wherever the
\* failing pairs are in the list.
EveryPairProcessed ==
  [][(outcome'.op = "batchMarkReconciled" /\ "matches" \in DOMAIN outcome') =>
       LET matches == outcome'.matches
           failing == SelectSeqBy(matches,
                        {m \in Range(matches) : ~IsStored(transactions, m.cardId)})
       IN /\ outcome'.updated + Len(outcome'.errors) = Len(matches)
          /\ outcome'.errors =
               [k \in 1..Len(failing) |->
                  [cardId |-> failing[k].cardId, error |-> "Transaction not found"]]
          /\ Len(transactions') = Len(transactions)
          /\ \A i \in 1..Len(transactions) :
               IF \E k \in 1..Len(matches) : matches[k].cardId = transactions[i].id
               THEN /\ transactions'[i].id = transactions[i].id
                    /\ transactions'[i].reconciled
                    /\ transactions'[i].ynab_transaction_id =
                         <<LastLedgerIdFor(matches, transactions[i].id)>>
               ELSE transactions'[i] = transactions[i]]_vars

\* a list whose first pair names no stored row and whose second pair names
\* row 1 was processed: one error, one row marked
EveryPairProcessedWitness ==
  /\ outcome.op = "batchMarkReconciled"
  /\ "matches" \in DOMAIN outcome
  /\ Len(outcome.matches) = 2
  /\ ~IsStored(transactions, outcome.matches[1].cardId)
  /\ outcome.matches[2].cardId = 1
  /\ outcome.updated = 1
  /\ Len(outcome.errors) = 1
  /\ transactions[1].reconciled

----------------------------------------------------------------------------
(* Properties of createMissingInYnab on a large store (checked under       *)
(* SpecLargeStore)                                                          *)

\* C28: for every id of the list given to createMissingInYnab that a stored
\* statement transaction has, the call submits as many create requests as
\* the list names the id, however many rows the store holds and whatever the
\* row's date; for an id that no row has it submits none, and only such ids
\* are reported as 'Transaction not found'.
EveryStoredIdRequested ==
  outcome.op = "createMissingInYnab" =>
    /\ \A c \in Range(outcome.ids) :
         Cardinality({k \in 1..Len(calls) : calls[k].cardId = c})
           = (IF IsStored(transactions, c)
              THEN Cardinality({k \in 1..Len(outcome.ids) : outcome.ids[k] = c})
              ELSE 0)
    /\ \A k \in 1..Len(outcome.returned.errors) :
         outcome.returned.errors[k].error = "Transaction not found"
           => ~IsStored(transactions, outcome.returned.errors[k].cardId)

----------------------------------------------------------------------------
(* Properties of POST /api/reconcile when the ledger fails (checked under   *)
(* SpecLedgerFailure)                                                       *)

\* the run of the last request failed with this message
RunFailedWith(message) ==
  /\ request.made
  /\ response.sent
  /\ result.returned
  /\ ~result.success
  /\ result.error = <<message>>

\* C29: a request with valid parameters whose run fails at the ledger is
\* answered by the failure's own status and code: 401 AUTH_FAILED for a
\* rejected credential, 404 BUDGET_NOT_FOUND for a missing budget, 429
\* RATE_LIMIT for a rate-limited call.
LedgerFailureHasOwnStatus ==
  /\ RunFailedWith(UnauthorizedMessage)
       => (response.status = 401 /\ response.code = "AUTH_FAILED")
  /\ RunFailedWith(FetchNotFoundMessage)
       => (response.status = 404 /\ response.code = "BUDGET_NOT_FOUND")
  /\ RunFailedWith(RateLimitMessage)
       => (response.status = 429 /\ response.code = "RATE_LIMIT")

----------------------------------------------------------------------------
(* Frame of reconcileAndPersist and of the log table (checked under         *)
(* SpecPersist)                                                             *)

\* the call of reconcileAndPersist that this step made had nothing to persist
NothingToPersist ==
  /\ request'.made
  /\ result'.returned
  /\ \/ ~request'.persist
     \/ ~result'.success
     \/ result'.matchedCount = 0

SameMarkers ==
  /\ Len(transactions') = Len(transactions)
  /\ \A i \in 1..Len(transactions) :
       /\ transactions'[i].id = transactions[i].id
       /\ transactions'[i].reconciled = transactions[i].reconciled
       /\ transactions'[i].ynab_transaction_id = transactions[i].ynab_transaction_id
       /\ transactions'[i].reconciled_at = transactions[i].reconciled_at

LogsKept ==
  /\ Len(reconciliationLogs') >= Len(reconciliationLogs)
  /\ SubSeq(reconciliationLogs', 1, Len(reconciliationLogs)) = reconciliationLogs

\* C30: a call of reconcileAndPersist with persist false, or whose run failed,
\* or whose run found no match, changes no row's reconciliation marker and
\* appends no log entry; and no step of any operation modifies or removes an
\* existing log entry.
NothingToPersistNothingWritten ==
  [][/\ NothingToPersist => (SameMarkers /\ reconciliationLogs' = reconciliationLogs)
     /\ LogsKept]_vars

\* a persisting call found no match, over a store that holds a reconciled
\* row and a log entry
NothingToPersistNothingWrittenWitness ==
  /\ request.made
  /\ request.persist
  /\ result.returned
  /\ result.success
  /\ result.matchedCount = 0
  /\ reconciliationLogs # <<>>
  /\ \E i \in 1..Len(transactions) : transactions[i].reconciled

====
